---- MODULE Spec2Model ----
(***************************************************************************)
(* Model of the weather application: the HTTP retry client, the single-    *)
(* slot result cache, the weather gateway (get_current_weather) and the    *)
(* interactive fallback (_fetch_weather_interactive) of weather_app.py.    *)
(***************************************************************************)
EXTENDS Integers, Sequences, FiniteSets, TLC

(***************************************************************************)
(* Bounds of the model.                                                    *)
(***************************************************************************)
\* Strings are sequences of characters of length 0..MaxLen.
MaxLen == 2
\* Latitudes and longitudes range over 0..MaxCoord (in units of tol/2).
MaxCoord == 3
\* A mapping of several pollutant concentrations has up to MaxComps items.
MaxComps == 2
\* A list of forecast points has up to MaxPoints points.
MaxPoints == 3
\* The forecast of the CLI view covers up to MaxDays calendar dates.
MaxDays == 6
\* The bot sends a user up to MaxForecasts inline forecast messages.
MaxForecasts == 3
\* The wall clock takes the instants 0..ClockSpan and
\* MAX_CACHE_AGE_SECONDS .. MAX_CACHE_AGE_SECONDS + ClockSpan (seconds).
ClockSpan == 1

(***************************************************************************)
(* Values.                                                                 *)
(***************************************************************************)
\* Python's None for an optional string / an optional number.
NoneStr == [t |-> "none", v |-> <<>>]
NoneNum == [t |-> "none", v |-> 0]
Str(s) == [t |-> "str", v |-> s]
Num(n) == [t |-> "num", v |-> n]

Last(s) == s[Len(s)]

(***************************************************************************)
(* HTTP retry client: _request_with_retries.                               *)
(***************************************************************************)
\* What one requests.get can end with: a response carrying a status code, or
\* a requests.exceptions.RequestException (timeout, connection error).
Statuses == {200, 401, 404, 429, 499, 500, 599}
Response(s) == [exc |-> FALSE, status_code |-> s]
RequestException == [exc |-> TRUE, status_code |-> 0]
Outcomes == {Response(s) : s \in Statuses} \cup {RequestException}

backoffs_long == <<1, 2, 4, 8>>
backoffs == <<1, 2, 4>>

\* The condition of line 123.
RetryableStatus_strict(status_code) ==
    status_code = 429 \/ (500 < status_code /\ status_code <= 599)
RetryableStatus(status_code) ==
    status_code = 429 \/ (500 <= status_code /\ status_code <= 599)

\* What a retryable failure on loop index att leads to: sleep and go round
\* the loop again, or raise TransientRequestError (lines 124-127, 132-135).
AfterRetryable_returns(att) ==
    IF att < Len(backoffs) THEN "running" ELSE "returned"
AfterRetryable(att) ==
    IF att < Len(backoffs) THEN "running" ELSE "raised"

\* The number of iterations of the for loop of line 117.
attempts_short == Len(backoffs)
attempts == Len(backoffs) + 1

VARIABLES
    rq,          \* position in _request_with_retries: idle, running, returned, raised
    attempt,     \* the loop index of the next attempt (0-based)
    sleeps,      \* the time.sleep arguments of this call, in order
    responses    \* the outcomes of the attempts of this call, in order

retryVars == <<rq, attempt, sleeps, responses>>

RetryInit ==
    /\ rq = "idle"
    /\ attempt = 0
    /\ sleeps = <<>>
    /\ responses = <<>>

\* Entry of _request_with_retries (lines 112-115).
RequestBegin ==
    /\ rq' = "running"
    /\ attempt' = 0
    /\ sleeps' = <<>>
    /\ responses' = <<>>

\* One iteration of the for loop (lines 117-135) with the outcome o of
\* requests.get.
RequestAttempt(o) ==
    /\ rq = "running"
    /\ attempt < attempts
    /\ responses' = Append(responses, o)
    /\ IF o.exc \/ RetryableStatus(o.status_code)
       THEN /\ rq' = AfterRetryable(attempt)
            /\ IF attempt < Len(backoffs)
               THEN /\ sleeps' = Append(sleeps, backoffs[attempt + 1])
                    /\ attempt' = attempt + 1
               ELSE UNCHANGED <<sleeps, attempt>>
       ELSE /\ rq' = "returned"
            /\ UNCHANGED <<sleeps, attempt>>

\* The caller has taken the result; the client is ready for the next call.
RequestEnd ==
    /\ rq' = "idle"
    /\ attempt' = 0
    /\ sleeps' = <<>>
    /\ responses' = <<>>

(***************************************************************************)
(* Strings: sequences of characters, with str.strip and str.casefold.      *)
(***************************************************************************)
Whitespace == {" "}
Chars == {" ", "a", "A", "b"}

RECURSIVE StringsOfLen(_)
StringsOfLen(n) ==
    IF n = 0 THEN {<<>>}
    ELSE {Append(s, c) : s \in StringsOfLen(n - 1), c \in Chars}

Strings == UNION {StringsOfLen(n) : n \in 0..MaxLen}

RECURSIVE lstrip(_)
lstrip(s) ==
    IF s # <<>> /\ Head(s) \in Whitespace THEN lstrip(Tail(s)) ELSE s

RECURSIVE rstrip(_)
rstrip(s) ==
    IF s # <<>> /\ Last(s) \in Whitespace
    THEN rstrip(SubSeq(s, 1, Len(s) - 1))
    ELSE s

strip_left_only(s) == lstrip(s)
strip(s) == rstrip(lstrip(s))

foldchar(c) == IF c = "A" THEN "a" ELSE c

casefold_identity(s) == s
casefold(s) == [i \in 1..Len(s) |-> foldchar(s[i])]

(***************************************************************************)
(* Result cache: weather_cache.json and the functions that read it.        *)
(***************************************************************************)
MAX_CACHE_AGE_SECONDS == 3 * 60 * 60

\* The instants the wall clock (datetime.now) takes in the model.
Instants ==
    (0..ClockSpan) \cup {MAX_CACHE_AGE_SECONDS + k : k \in 0..ClockSpan}

\* A fetched_at value: an ISO-8601 string with an offset (t is the instant in
\* UTC seconds), an ISO-8601 string without one (t is the wall time read),
\* a string that is no ISO-8601 date, or a value that is no string.
Timestamp(fmt, t) == [fmt |-> fmt, t |-> t]
_now_utc_iso(clock) == Timestamp("aware", clock)

\* None is the record whose ok field is FALSE.
_parse_iso_datetime(value) ==
    IF value.fmt = "invalid" THEN [ok |-> FALSE, utc |-> 0]
    ELSE IF value.fmt = "naive" THEN [ok |-> TRUE, utc |-> value.t]
    ELSE [ok |-> TRUE, utc |-> value.t]

_is_fresh_no_lower_bound(fetched_at_iso, clock) ==
    LET dt == _parse_iso_datetime(fetched_at_iso)
    IN  IF ~dt.ok THEN FALSE
        ELSE clock - dt.utc <= MAX_CACHE_AGE_SECONDS
_is_fresh(fetched_at_iso, clock) ==
    LET dt == _parse_iso_datetime(fetched_at_iso)
    IN  IF ~dt.ok THEN FALSE
        ELSE LET age == clock - dt.utc
             IN  0 <= age /\ age <= MAX_CACHE_AGE_SECONDS

\* The tolerance 1e-6 of _floats_close, in coordinate units of 5e-7 degrees.
tol == 2

abs(x) == IF x < 0 THEN -x ELSE x

_floats_close_strict(a, b) == abs(a - b) < tol
_floats_close(a, b) == abs(a - b) <= tol

\* The cache file's JSON object.
CacheEntry(city, lat, lon, fetched_at, data) ==
    [kind |-> "entry", city |-> city, lat |-> lat, lon |-> lon,
     fetched_at |-> fetched_at, data |-> data]

_cache_matches_request(cache, city, lat, lon) ==
    IF city.t # "none" /\ cache.city.t = "str"
    THEN casefold(strip(cache.city.v)) = casefold(strip(city.v))
    ELSE IF /\ lat.t # "none" /\ lon.t # "none"
            /\ cache.lat.t = "num" /\ cache.lon.t = "num"
         THEN /\ _floats_close(cache.lat.v, lat.v)
              /\ _floats_close(cache.lon.v, lon.v)
         ELSE FALSE

(***************************************************************************)
(* Weather gateway (get_current_weather) and its callers.                  *)
(***************************************************************************)
\* The provider outcomes the gateway is exercised with.
GatewayStatuses == {200, 404, 500}
GatewayOutcomes == {Response(s) : s \in GatewayStatuses}

\* City arguments: the empty string and two spellings of one city.
GatewayCities == {<<>>, <<"a">>, <<"A">>}
GatewayLats == {0, MaxCoord}
GatewayLons == {0}

\* Bodies of a 200 answer of the weather endpoint: a JSON object (a
\* snapshot) or JSON that is no object.
Dict(name) == [t |-> "dict", v |-> name]
NonDict == [t |-> "other", v |-> "null"]
Snapshots == {Dict("w1"), Dict("w2")}
WeatherBodies == Snapshots \cup {NonDict}

\* Bodies of a 200 answer of the geocoding endpoint: a list of places.
Place(lat, lon) == [lat |-> lat, lon |-> lon]
GeocoderLists ==
    {<<>>} \cup {<<Place(la, lo)>> : la \in GatewayLats, lo \in GatewayLons}
           \cup {<<Place(MaxCoord, 0), Place(0, 0)>>,
                 <<Place(0, 0), Place(MaxCoord, 0)>>}

\* What the user may type at the prompt of line 511.
Answers == {<<>>, <<"y">>, <<"Y">>, <<" ", "y">>, <<"n">>, <<"a">>}
NotAsked == <<"-">>

lowerchar(c) == IF c = "A" THEN "a" ELSE IF c = "Y" THEN "y" ELSE c
lower(s) == [i \in 1..Len(s) |-> lowerchar(s[i])]

\* The tuple of line 514; "cyr_de" and "cyr_a" stand for the Cyrillic letters.
AcceptedAnswers_any(s) == TRUE
AcceptedAnswers(s) ==
    s \in {<<>>, <<"y">>, <<"y", "e", "s">>, <<"cyr_de">>,
            <<"cyr_de", "cyr_a">>}

\* The cache file: missing, not a JSON object, or an entry.
CacheAbsent ==
    [kind |-> "absent", city |-> NoneStr, lat |-> NoneNum, lon |-> NoneNum,
     fetched_at |-> Timestamp("nonstr", 0), data |-> NonDict]
CacheGarbage ==
    [kind |-> "garbage", city |-> NoneStr, lat |-> NoneNum, lon |-> NoneNum,
     fetched_at |-> Timestamp("nonstr", 0), data |-> NonDict]

\* Other contents of the file: JSON that is no object, bytes that are not
\* UTF-8, and a file that exists but cannot be opened.
CacheNonObject == [CacheGarbage EXCEPT !.kind = "nonobject"]
CacheUndecodable == [CacheGarbage EXCEPT !.kind = "undecodable"]
CacheUnreadable == [CacheGarbage EXCEPT !.kind = "unreadable"]

\* _load_cache: the JSON object (ok), or None. The except clause of line 51
\* catches OSError (open) and json.JSONDecodeError; the UnicodeDecodeError
\* that reading undecodable bytes raises is neither, and leaves the function.
_load_cache(file) ==
    IF file.kind = "entry" THEN [ok |-> TRUE, raised |-> FALSE, cache |-> file]
    ELSE IF file.kind = "undecodable"
         THEN [ok |-> FALSE, raised |-> TRUE, cache |-> file]
         ELSE [ok |-> FALSE, raised |-> FALSE, cache |-> file]

\* Python truthiness of the city argument (line 146).
Truthy(city) == city.t = "str" /\ city.v # <<>>

NoRet == [kind |-> "pending", data |-> NonDict]
RetNone == [kind |-> "none", data |-> NonDict]
NoCoords == [lat |-> NoneNum, lon |-> NoneNum]
NoReq == [city |-> NoneStr, lat |-> NoneNum, lon |-> NoneNum]

VARIABLES
    pc,          \* idle, geocode, weather, except, done
    caller,      \* who issued the current request: cli, bot, sweep (or none)
    req,         \* the arguments city, latitude, longitude of the request
    coords,      \* latitude and longitude inside get_current_weather
    cacheFile,   \* the content of weather_cache.json
    now,         \* the wall clock, in seconds
    ret,         \* what the request returned or raised
    live,        \* how get_current_weather ended: pending, returned, raised
    cacheRead,   \* whether this request has called _load_cache
    wrote,       \* what _save_cache did in this request
    answer,      \* what the user typed at the cache offer, if asked
    out,         \* the result of a cache predicate applied on its own
    replies,     \* the messages the bot handler has sent for this request
    fn,          \* the fetch function called on its own, or "none"
    json,        \* the JSON body of the response that function received
    result,      \* what that function returned or raised
    reading,     \* the argument components of analyze_air_pollution
    extended,    \* the argument extended of analyze_air_pollution
    analysis,    \* the dictionary analyze_air_pollution returned
    forecast_list, \* the list given to the forecast functions
    grouped,     \* what _group_forecast_by_days returned
    daily,       \* what _calculate_daily_average returned
    dataFile,    \* the user store on disk: the document of each user
    sweepPc,     \* _notification_loop: sleeping, users, or dead
    sweepPos,    \* the user the for loop of the sweep is at
    sweepData,   \* the document the sweep loaded and works on
    processed,   \* the users the for loop has been through in this cycle
    sweepWrote,  \* how the last _save_data of the sweep ended
    hPc,         \* the store function a handler is in, after its load, or idle
    hUser,       \* the user that handler updates
    hData,       \* the document that handler loaded
    raced,       \* users whose update a handler wrote during this sweep
    alerts,      \* the rain alerts each user was sent on the current date
    view,        \* the function that resolves a city and then fetches
    shown,       \* what that function reported or returned, once it has
    issued,      \* the endpoints that function has sent a request to
    summary,     \* the dates the CLI forecast view listed, in order
    detail,      \* what that view did with the day number typed
    user_states, \* the bot's user_states entry of one user
    has_location, \* whether the store holds a location of that user
    botPc,       \* the provider request a bot handler is waiting for, or idle
    handled,     \* the input the bot handled last
    ended,       \* how the provider request of that handler ended
    forecasts,   \* the inline forecast messages sent to the user so far
    deleted      \* the message the last forecast tried to delete, 0 for none

gatewayVars ==
    <<pc, caller, req, coords, cacheFile, now, ret, live, cacheRead, wrote,
      answer, out, replies>>
fetchVars == <<fn, json, result>>
airVars == <<reading, extended, analysis>>
dayVars == <<forecast_list, grouped, daily>>
storeVars ==
    <<dataFile, sweepPc, sweepPos, sweepData, processed, sweepWrote, hPc,
      hUser, hData, raced, alerts>>
viewVars == <<view, shown, issued>>
pickVars == <<summary, detail>>
chatVars ==
    <<user_states, has_location, botPc, handled, ended, forecasts, deleted>>
vars ==
    <<retryVars, gatewayVars, fetchVars, airVars, dayVars, storeVars, viewVars,
      pickVars, chatVars>>

NoOut == [fn |-> "none", val |-> FALSE, raised |-> FALSE]

GatewayInit ==
    /\ pc = "idle"
    /\ caller = "none"
    /\ req = NoReq
    /\ coords = NoCoords
    /\ cacheFile = CacheAbsent
    /\ now = 0
    /\ ret = NoRet
    /\ live = "pending"
    /\ cacheRead = FALSE
    /\ wrote = "no"
    /\ answer = NotAsked
    /\ out = NoOut
    /\ replies = <<>>

\* A JSON object with an optional member 'list'.
Body(hasList, list) == [hasList |-> hasList, list |-> list]
NoBody == Body(FALSE, <<>>)
NoResult == [kind |-> "pending", exc |-> "none", t |-> "none", v |-> <<>>]

FetchInit ==
    /\ fn = "none"
    /\ json = NoBody
    /\ result = NoResult

\* The argument components of analyze_air_pollution, a dictionary: main says
\* whether it has the key 'main' and whether that object has 'aqi'; nested
\* says whether it has the key 'components', whose value is then the
\* mapping items; without 'main' and 'components' the dictionary is the
\* mapping items itself.
Reading(main, aqi, nested, items) ==
    [main |-> main, aqi |-> aqi, nested |-> nested, items |-> items]
NoReading == Reading("absent", 0, FALSE, <<>>)
\* The dictionary analyze_air_pollution returns: its keys and their values.
Analysis(keys, status, aqi, level_name, over, components, table) ==
    [keys |-> keys, status |-> status, aqi |-> aqi, level_name |-> level_name,
     exceeded_parameters |-> over, components |-> components,
     thresholds |-> table]
\* A dictionary with no keys.
EmptyDict == [k \in {} |-> NoneNum]
NoAnalysis == Analysis({}, "", NoneNum, "", <<>>, <<>>, EmptyDict)

AirInit ==
    /\ reading = NoReading
    /\ extended = FALSE
    /\ analysis = NoAnalysis

\* The functions of the forecast have not been applied.
NotGrouped == <<[date |-> <<"-">>, items |-> <<>>]>>
NotAveraged ==
    [keys |-> {"-"}, temp_avg |-> NoneNum, temp_min |-> NoneNum,
     temp_max |-> NoneNum, description |-> <<>>]

DayInit ==
    /\ forecast_list = <<>>
    /\ grouped = NotGrouped
    /\ daily = NotAveraged

\* The users of the store, and the document of one user: whether the
\* subscription is enabled, whether a location is stored, and the fields
\* the sweep and the handlers write.
Users == {1, 2}

\* The count of a user's rain alerts is followed up to this number.
MaxAlerts == 2
UserDoc(enabled, located) ==
    [enabled |-> enabled, located |-> located, last_rain_alert |-> "none",
     last_condition |-> "none", last_city |-> "none"]

StoreInit ==
    /\ dataFile = [u \in Users |-> UserDoc(FALSE, FALSE)]
    /\ sweepPc = "sleeping"
    /\ sweepPos = 0
    /\ sweepData = [u \in Users |-> UserDoc(FALSE, FALSE)]
    /\ processed = {}
    /\ sweepWrote = "no"
    /\ hPc = "idle"
    /\ hUser = 0
    /\ hData = [u \in Users |-> UserDoc(FALSE, FALSE)]
    /\ raced = {}
    /\ alerts = [u \in Users |-> 0]

\* The forecast view has listed nothing, and nothing was typed.
NotShown == <<<<"-">>>>
NoChoice == [choice |-> <<"-">>, outcome |-> "pending", date |-> <<>>]

PickInit ==
    /\ summary = NotShown
    /\ detail = NoChoice

\* The entry of a user in user_states: the pending conversation state and
\* the id of the last inline forecast message, none and 0 when the key is
\* missing.
StateEntry(state, last_inline_msg_id) ==
    [state |-> state, last_inline_msg_id |-> last_inline_msg_id]
NoEntry == StateEntry("none", 0)

ChatInit ==
    /\ user_states = NoEntry
    /\ has_location = FALSE
    /\ botPc = "idle"
    /\ handled = "none"
    /\ ended = "none"
    /\ forecasts = 0
    /\ deleted = 0

ViewInit ==
    /\ view = "none"
    /\ shown = "none"
    /\ issued = {}

Init ==
    /\ RetryInit /\ GatewayInit /\ FetchInit /\ AirInit /\ ViewInit
    /\ StoreInit /\ DayInit /\ PickInit /\ ChatInit

\* The requests each caller issues: the CLI through
\* _fetch_weather_interactive, a bot handler and the background sweep
\* through get_current_weather.
CityRequests ==
    {[city |-> Str(s), lat |-> NoneNum, lon |-> NoneNum] : s \in GatewayCities}
CoordRequests ==
    {[city |-> NoneStr, lat |-> Num(la), lon |-> Num(lo)] :
        la \in GatewayLats, lo \in GatewayLons}
BothRequests ==
    {[city |-> Str(s), lat |-> Num(la), lon |-> Num(lo)] :
        s \in GatewayCities, la \in GatewayLats, lo \in GatewayLons}
PartialRequests ==
    {[city |-> NoneStr, lat |-> Num(la), lon |-> NoneNum] : la \in GatewayLats}

Requests(c) ==
    IF c = "cli" THEN CityRequests \cup CoordRequests \cup {NoReq}
    ELSE IF c = "bot"
         THEN CityRequests \cup CoordRequests \cup BothRequests
              \cup PartialRequests \cup {NoReq}
         ELSE CoordRequests

Callers == {"cli", "bot", "sweep"}

\* The arguments get_current_weather receives: _fetch_weather_interactive
\* passes the city alone when there is one (lines 498-501).
GatewayArgs(c, r) ==
    IF c = "cli" /\ r.city.t # "none"
    THEN [city |-> r.city, lat |-> NoneNum, lon |-> NoneNum]
    ELSE r

\* The city get_current_weather saves with the snapshot: the city of the
\* city branch (line 154), None in the coordinate branch (line 160).
SavedCity_always(args) == args.city
SavedCity(args) == IF Truthy(args.city) THEN args.city ELSE NoneStr

\* Where TransientRequestError goes once it leaves get_current_weather: the
\* except clause of _fetch_weather_interactive (line 503), the except of the
\* sweep (bot.py line 497), or out of the bot handler.
AfterLiveFetch_always_except(c, outcome) == "except"
AfterLiveFetch(c, outcome) ==
    IF outcome = "raised" /\ c = "cli" THEN "except" ELSE "done"

\* What the bot handlers of a current-weather request send once
\* get_current_weather has ended (bot.py lines 596-599, 573-576): the
\* weather for a dictionary, the apology for anything else returned, and
\* nothing when it raised, since the handlers have no try statement.
handler_replies_silent(c, r) == <<>>
handler_replies(c, r) ==
    IF c # "bot" \/ r.kind = "raise" THEN <<>>
    ELSE IF r.kind = "value" /\ r.data.t = "dict" THEN <<"weather">>
    ELSE <<"apology">>

\* The branch get_current_weather takes: the city branch of line 146 is
\* tested before the coordinate branch of line 156, and with neither the
\* function falls off its end.
branch_coordinates_first(args) ==
    IF args.lat.t # "none" /\ args.lon.t # "none" THEN "coordinates"
    ELSE IF Truthy(args.city) THEN "city"
    ELSE "neither"
branch(args) ==
    IF Truthy(args.city) THEN "city"
    ELSE IF args.lat.t # "none" /\ args.lon.t # "none" THEN "coordinates"
    ELSE "neither"

\* A request starts: get_current_weather up to its first HTTP request
\* (lines 145-148, 156-158), or its return without one.
Call(c, r) ==
    /\ pc = "idle"
    /\ caller' = c
    /\ req' = r
    /\ LET args == GatewayArgs(c, r)
       IN  IF branch(args) = "city"
           THEN /\ pc' = "geocode"
                /\ coords' = [lat |-> args.lat, lon |-> args.lon]
                /\ RequestBegin
                /\ UNCHANGED <<ret, live, replies>>
           ELSE IF branch(args) = "coordinates"
                THEN /\ pc' = "weather"
                     /\ coords' = [lat |-> args.lat, lon |-> args.lon]
                     /\ RequestBegin
                     /\ UNCHANGED <<ret, live, replies>>
                ELSE /\ pc' = AfterLiveFetch(c, "returned")
                     /\ coords' = [lat |-> args.lat, lon |-> args.lon]
                     /\ ret' = RetNone
                     /\ replies' = handler_replies(c, RetNone)
                     /\ live' = "returned"
                     /\ UNCHANGED retryVars
    /\ UNCHANGED <<cacheFile, now, cacheRead, wrote, answer, out>>
    /\ UNCHANGED <<fetchVars, airVars, dayVars, storeVars, viewVars,
                   pickVars, chatVars>>

\* One attempt of the HTTP request in flight.
HttpAttempt(o) ==
    /\ pc \in {"geocode", "weather"}
    /\ RequestAttempt(o)
    /\ UNCHANGED gatewayVars
    /\ UNCHANGED <<fetchVars, airVars, dayVars, storeVars, viewVars,
                   pickVars, chatVars>>

\* What a fetch function returns: None, a tuple, a list, or a dictionary
\* (given by its entries, none for the empty dictionary).
PyNone == [t |-> "None", v |-> <<>>]
PyTuple(v) == [t |-> "tuple", v |-> v]
PyList(v) == [t |-> "list", v |-> v]
PyDict(v) == [t |-> "dict", v |-> v]

\* get_coordinates after its request returned (lines 166-174): data is the
\* JSON list of the response.
get_coordinates_last(response, data) ==
    IF response.status_code = 200 /\ data # <<>>
    THEN PyTuple(<<data[Len(data)].lat, data[Len(data)].lon>>)
    ELSE PyNone
get_coordinates(response, data) ==
    IF response.status_code = 200 /\ data # <<>>
    THEN PyTuple(<<data[1].lat, data[1].lon>>)
    ELSE PyNone

\* get_forecast_5d3h after its request returned (lines 190-195): data is the
\* JSON object of the response.
get_forecast_5d3h(response, data) ==
    IF response.status_code = 200
    THEN IF data.hasList THEN PyList(data.list) ELSE PyList(<<>>)
    ELSE PyList(<<>>)

\* get_air_pollution after its request returned (lines 209-216).
get_air_pollution(response, data) ==
    IF response.status_code = 200
    THEN IF data.hasList /\ data.list # <<>>
         THEN PyDict(<<data.list[1]>>)
         ELSE PyDict(<<>>)
    ELSE PyDict(<<>>)

\* get_weather_by_coordinates after its request returned (lines 179-183):
\* data is the JSON object of the response, given by its entries.
get_weather_by_coordinates(response, data) ==
    IF response.status_code = 200 THEN PyDict(data.list) ELSE PyNone

\* get_coordinates after its request returned (lines 166-174) and
\* get_current_weather up to the weather request (lines 149-152).
GeocodeReturned(data) ==
    /\ pc = "geocode"
    /\ rq = "returned"
    /\ IF get_coordinates(Last(responses), data) # PyNone
       THEN /\ coords' = [lat |-> Num(get_coordinates(Last(responses), data).v[1]),
                          lon |-> Num(get_coordinates(Last(responses), data).v[2])]
            /\ json' = Body(TRUE, data)
            /\ pc' = "weather"
            /\ RequestBegin
            /\ UNCHANGED <<ret, live, replies>>
       ELSE /\ pc' = AfterLiveFetch(caller, "returned")
            /\ ret' = RetNone
            /\ replies' = handler_replies(caller, RetNone)
            /\ live' = "returned"
            /\ RequestEnd
            /\ UNCHANGED <<coords, json>>
    /\ UNCHANGED <<caller, req, cacheFile, now, cacheRead, wrote, answer, out>>
    /\ UNCHANGED <<fn, result, airVars, dayVars, storeVars, viewVars,
                   pickVars, chatVars>>

\* How the write of _save_cache ends (lines 63-68): the file is written,
\* open fails and leaves the file alone, or the dump fails after open has
\* truncated the file, leaving a part of the JSON text that may end inside
\* a multi-byte character (the text is written with ensure_ascii=False).
WriteResults == {"ok", "open_failed", "dump_failed", "dump_failed_split"}

_save_cache_if_absent(file, city, lat, lon, weather_data, clock, w) ==
    IF w = "ok"
    THEN IF file.kind = "entry" THEN file
         ELSE CacheEntry(city, lat, lon, _now_utc_iso(clock), weather_data)
    ELSE IF w = "open_failed" THEN file
         ELSE IF w = "dump_failed" THEN CacheGarbage ELSE CacheUndecodable
_save_cache(file, city, lat, lon, weather_data, clock, w) ==
    IF w = "ok"
    THEN CacheEntry(city, lat, lon, _now_utc_iso(clock), weather_data)
    ELSE IF w = "open_failed" THEN file
         ELSE IF w = "dump_failed" THEN CacheGarbage ELSE CacheUndecodable

\* What the successful write replaced.
Replaced(file, city, lat, lon) ==
    IF file.kind # "entry" THEN "fresh"
    ELSE IF file.city = city /\ file.lat = lat /\ file.lon = lon
         THEN "same_key"
         ELSE "other_key"

\* How _save_cache ends for the write result w: the except clause of lines
\* 66-68 swallows the OSError, so it returns in every case.
SaveOutcome_raises(w) == IF w = "ok" THEN "returned" ELSE "raised"
SaveOutcome(w) == "returned"

\* The condition of lines 153 and 159.
IsSnapshot_any(weather) == TRUE
IsSnapshot(weather) == weather.t = "dict"

\* get_weather_by_coordinates after its request returned (lines 179-183)
\* and the rest of get_current_weather (lines 153-155, 159-161).
WeatherReturned(body, w) ==
    /\ pc = "weather"
    /\ rq = "returned"
    /\ IF Last(responses).status_code = 200
       THEN /\ ret' = IF IsSnapshot(body) /\ SaveOutcome(w) = "raised"
                      THEN [kind |-> "raise", data |-> NonDict]
                      ELSE [kind |-> "value", data |-> body]
            /\ IF IsSnapshot(body)
               THEN LET city == SavedCity(GatewayArgs(caller, req))
                    IN  /\ cacheFile' = _save_cache(cacheFile, city, coords.lat,
                                                    coords.lon, body, now, w)
                        /\ wrote' = IF w = "ok"
                                    THEN Replaced(cacheFile, city, coords.lat,
                                                  coords.lon)
                                    ELSE "failed"
               ELSE UNCHANGED <<cacheFile, wrote>>
       ELSE /\ ret' = RetNone
            /\ UNCHANGED <<cacheFile, wrote>>
    /\ replies' = handler_replies(caller, ret')
    /\ pc' = AfterLiveFetch(caller, "returned")
    /\ live' = "returned"
    /\ json' = NoBody
    /\ RequestEnd
    /\ UNCHANGED <<caller, req, coords, now, cacheRead, answer, out>>
    /\ UNCHANGED <<fn, result, airVars, dayVars, storeVars, viewVars,
                   pickVars, chatVars>>

\* The HTTP request in flight raised TransientRequestError.
TransientRaised ==
    /\ pc \in {"geocode", "weather"}
    /\ rq = "raised"
    /\ live' = "raised"
    /\ pc' = AfterLiveFetch(caller, "raised")
    /\ ret' = IF caller = "cli" THEN ret
              ELSE IF caller = "sweep" THEN [kind |-> "skipped", data |-> NonDict]
              ELSE [kind |-> "raise", data |-> NonDict]
    /\ replies' = handler_replies(caller, ret')
    /\ json' = NoBody
    /\ RequestEnd
    /\ UNCHANGED <<caller, req, coords, cacheFile, now, cacheRead, wrote,
                   answer, out>>
    /\ UNCHANGED <<fn, result, airVars, dayVars, storeVars, viewVars,
                   pickVars, chatVars>>

\* The except clause of _fetch_weather_interactive (lines 503-519), the
\* user typing a when the cached data is offered.
ExceptClause(a) ==
    /\ pc = "except"
    /\ cacheRead' = TRUE
    /\ LET loaded == _load_cache(cacheFile)
           cache == loaded.cache
       IN  IF loaded.raised
           THEN /\ answer' = NotAsked
                /\ ret' = [kind |-> "raise", data |-> NonDict]
           ELSE
           IF /\ loaded.ok
              /\ cache.fetched_at.fmt # "nonstr"
              /\ _is_fresh(cache.fetched_at, now)
              /\ _cache_matches_request(cache, req.city, req.lat, req.lon)
           THEN /\ answer' = a
                /\ ret' = IF AcceptedAnswers(lower(strip(a)))
                              /\ cache.data.t = "dict"
                          THEN [kind |-> "cached", data |-> cache.data]
                          ELSE RetNone
           ELSE /\ answer' = NotAsked
                /\ ret' = RetNone
    /\ pc' = "done"
    /\ UNCHANGED retryVars
    /\ UNCHANGED <<caller, req, coords, cacheFile, now, live, wrote, out,
                   replies>>
    /\ UNCHANGED <<fetchVars, airVars, dayVars, storeVars, viewVars,
                   pickVars, chatVars>>

\* The caller has the result; the next request may start.
Return ==
    /\ pc = "done"
    /\ pc' = "idle"
    /\ caller' = "none"
    /\ req' = NoReq
    /\ coords' = NoCoords
    /\ ret' = NoRet
    /\ live' = "pending"
    /\ cacheRead' = FALSE
    /\ wrote' = "no"
    /\ answer' = NotAsked
    /\ replies' = <<>>
    /\ UNCHANGED retryVars
    /\ UNCHANGED <<cacheFile, now, out>>
    /\ UNCHANGED <<fetchVars, airVars, dayVars, storeVars, viewVars,
                   pickVars, chatVars>>

\* The wall clock moves (time passes, or the clock is set).
ClockSet(t) ==
    /\ t # now
    /\ now' = t
    /\ UNCHANGED retryVars
    /\ UNCHANGED <<pc, caller, req, coords, cacheFile, ret, live, cacheRead,
                   wrote, answer, out, replies>>
    /\ UNCHANGED <<fetchVars, airVars, dayVars, storeVars, viewVars,
                   pickVars, chatVars>>

Next ==
    \/ \E c \in Callers : \E r \in Requests(c) : Call(c, r)
    \/ \E o \in GatewayOutcomes : HttpAttempt(o)
    \/ \E data \in GeocoderLists : GeocodeReturned(data)
    \/ \E wb \in WeatherBodies : \E w \in WriteResults : WeatherReturned(wb, w)
    \/ TransientRaised
    \/ \E a \in Answers : ExceptClause(a)
    \/ Return
    \/ \E t \in Instants : ClockSet(t)

Spec == Init /\ [][Next]_vars

(***************************************************************************)
(* The retry client on its own, against every provider outcome.            *)
(***************************************************************************)
ClientCall ==
    /\ rq = "idle"
    /\ RequestBegin
    /\ UNCHANGED gatewayVars
    /\ UNCHANGED <<fetchVars, airVars, dayVars, storeVars, viewVars,
                   pickVars, chatVars>>

ClientAttempt(o) ==
    /\ RequestAttempt(o)
    /\ UNCHANGED gatewayVars
    /\ UNCHANGED <<fetchVars, airVars, dayVars, storeVars, viewVars,
                   pickVars, chatVars>>

ClientDone ==
    /\ rq \in {"returned", "raised"}
    /\ RequestEnd
    /\ UNCHANGED gatewayVars
    /\ UNCHANGED <<fetchVars, airVars, dayVars, storeVars, viewVars,
                   pickVars, chatVars>>

NextRetry ==
    \/ ClientCall
    \/ \E o \in Outcomes : ClientAttempt(o)
    \/ ClientDone

SpecRetry == Init /\ [][NextRetry]_vars

\* The same client when every requests.get and every time.sleep ends: an
\* iteration of the loop that can be taken is taken.
SpecRetryLive ==
    Init /\ [][NextRetry]_vars /\ WF_vars(\E o \in Outcomes : ClientAttempt(o))

(***************************************************************************)
(* The cache predicates on their own, applied to bounded inputs.           *)
(***************************************************************************)
OptStrings == {NoneStr} \cup {Str(s) : s \in Strings}
OptCoords == {NoneNum} \cup {Num(n) : n \in 0..MaxCoord}

\* Inputs that vary the city names.
CityCases ==
    /\ \E c \in OptStrings : \E la \in {NoneNum, Num(0)} :
          cacheFile = CacheEntry(c, la, la, Timestamp("aware", 0), Dict("w1"))
    /\ \E c \in OptStrings : \E la \in {NoneNum, Num(0)} :
          req = [city |-> c, lat |-> la, lon |-> la]
    /\ now = 0

\* Inputs that vary the coordinates.
CoordCases ==
    /\ \E c \in {NoneStr, Str(<<"a">>)} : \E la \in OptCoords : \E lo \in OptCoords :
          cacheFile = CacheEntry(c, la, lo, Timestamp("aware", 0), Dict("w1"))
    /\ \E c \in {NoneStr, Str(<<"a">>)} : \E la \in OptCoords : \E lo \in OptCoords :
          req = [city |-> c, lat |-> la, lon |-> lo]
    /\ now = 0

\* Inputs that vary fetched_at and the clock.
FreshCases ==
    /\ \E fmt \in {"aware", "naive", "invalid"} : \E t \in Instants :
          cacheFile = CacheEntry(NoneStr, Num(0), Num(0), Timestamp(fmt, t),
                                 Dict("w1"))
    /\ req = [city |-> NoneStr, lat |-> Num(0), lon |-> Num(0)]
    /\ now \in Instants

\* Inputs that vary what the cache file holds.
FileCases ==
    /\ cacheFile \in {CacheAbsent, CacheUnreadable, CacheGarbage, CacheNonObject,
                      CacheUndecodable,
                      CacheEntry(NoneStr, Num(0), Num(0), Timestamp("aware", 0),
                                 Dict("w1"))}
    /\ req = NoReq
    /\ now = 0

InitCache ==
    /\ RetryInit
    /\ pc = "idle"
    /\ caller = "none"
    /\ coords = NoCoords
    /\ ret = NoRet
    /\ live = "pending"
    /\ cacheRead = FALSE
    /\ wrote = "no"
    /\ answer = NotAsked
    /\ out = NoOut
    /\ replies = <<>>
    /\ FetchInit
    /\ ViewInit
    /\ PickInit
    /\ ChatInit
    /\ StoreInit
    /\ DayInit
    /\ AirInit
    /\ (CityCases \/ CoordCases \/ FreshCases \/ FileCases)

ApplyIsFresh ==
    /\ out = NoOut
    /\ cacheFile.kind = "entry"
    /\ out' = [fn |-> "_is_fresh", val |-> _is_fresh(cacheFile.fetched_at, now),
               raised |-> FALSE]
    /\ UNCHANGED retryVars
    /\ UNCHANGED <<pc, caller, req, coords, cacheFile, now, ret, live,
                   cacheRead, wrote, answer, replies>>
    /\ UNCHANGED <<fetchVars, airVars, dayVars, storeVars, viewVars,
                   pickVars, chatVars>>

ApplyMatches ==
    /\ out = NoOut
    /\ cacheFile.kind = "entry"
    /\ out' = [fn |-> "_cache_matches_request",
               val |-> _cache_matches_request(cacheFile, req.city, req.lat,
                                              req.lon),
               raised |-> FALSE]
    /\ UNCHANGED retryVars
    /\ UNCHANGED <<pc, caller, req, coords, cacheFile, now, ret, live,
                   cacheRead, wrote, answer, replies>>
    /\ UNCHANGED <<fetchVars, airVars, dayVars, storeVars, viewVars,
                   pickVars, chatVars>>

ApplyLoadCache ==
    /\ out = NoOut
    /\ LET loaded == _load_cache(cacheFile)
       IN  out' = [fn |-> "_load_cache", val |-> loaded.ok,
                   raised |-> loaded.raised]
    /\ UNCHANGED retryVars
    /\ UNCHANGED <<pc, caller, req, coords, cacheFile, now, ret, live,
                   cacheRead, wrote, answer, replies>>
    /\ UNCHANGED <<fetchVars, airVars, dayVars, storeVars, viewVars,
                   pickVars, chatVars>>

NextCache ==
    \/ ApplyIsFresh
    \/ ApplyMatches
    \/ ApplyLoadCache

SpecCache == InitCache /\ [][NextCache]_vars

(***************************************************************************)
(* The fetch functions on their own: get_coordinates, get_forecast_5d3h    *)
(* and get_air_pollution, each over one call of the retry client.          *)
(***************************************************************************)
FetchFunctions == {"get_coordinates", "get_forecast_5d3h", "get_air_pollution"}

\* JSON objects with no member 'list', or with a list of up to two of the
\* given entries.
ListBodies(entries) ==
    {Body(FALSE, <<>>), Body(TRUE, <<>>)}
        \cup {Body(TRUE, <<e>>) : e \in entries}
        \cup {Body(TRUE, <<e1, e2>>) : e1 \in entries, e2 \in entries}

\* The bodies each endpoint is exercised with: the geocoder answers a JSON
\* list of places, the other two a JSON object.
ForecastBodies == ListBodies({"f1", "f2"})
PollutionBodies == ListBodies({"p1", "p2"})
WeatherObjects == {Body(TRUE, <<"w1">>)}
Bodies(f) ==
    IF f = "get_coordinates" THEN {Body(TRUE, l) : l \in GeocoderLists}
    ELSE IF f = "get_forecast_5d3h" THEN ForecastBodies
    ELSE IF f = "get_weather_by_coordinates" THEN WeatherObjects
    ELSE PollutionBodies

Returned(value) ==
    [kind |-> "return", exc |-> "none", t |-> value.t, v |-> value.v]
Raised(exc) == [kind |-> "raise", exc |-> exc, t |-> "none", v |-> <<>>]

FetchCall(f) ==
    /\ fn = "none"
    /\ rq = "idle"
    /\ fn' = f
    /\ RequestBegin
    /\ UNCHANGED <<json, result>>
    /\ UNCHANGED <<gatewayVars, airVars, dayVars, storeVars, viewVars,
                   pickVars, chatVars>>

FetchAttempt(o) ==
    /\ fn # "none"
    /\ RequestAttempt(o)
    /\ UNCHANGED <<fetchVars, gatewayVars, airVars, dayVars, storeVars, viewVars,
                   pickVars, chatVars>>

\* The function's own code after _request_with_retries returned.
FetchReturned(data) ==
    /\ fn # "none"
    /\ rq = "returned"
    /\ result = NoResult
    /\ json' = data
    /\ result' = Returned(
           IF fn = "get_coordinates"
           THEN get_coordinates(Last(responses), data.list)
           ELSE IF fn = "get_forecast_5d3h"
                THEN get_forecast_5d3h(Last(responses), data)
                ELSE IF fn = "get_weather_by_coordinates"
                     THEN get_weather_by_coordinates(Last(responses), data)
                     ELSE get_air_pollution(Last(responses), data))
    /\ UNCHANGED fn
    /\ UNCHANGED <<retryVars, gatewayVars, airVars, dayVars, storeVars, viewVars,
                   pickVars, chatVars>>

\* _request_with_retries raised: none of the three functions has a try
\* statement around the call (lines 166, 189, 208), so the exception leaves
\* the function.
FetchRaised ==
    /\ fn # "none"
    /\ rq = "raised"
    /\ result = NoResult
    /\ result' = Raised("TransientRequestError")
    /\ UNCHANGED <<fn, json>>
    /\ UNCHANGED <<retryVars, gatewayVars, airVars, dayVars, storeVars, viewVars,
                   pickVars, chatVars>>

FetchDone ==
    /\ fn # "none"
    /\ result # NoResult
    /\ fn' = "none"
    /\ json' = NoBody
    /\ result' = NoResult
    /\ RequestEnd
    /\ UNCHANGED <<gatewayVars, airVars, dayVars, storeVars, viewVars,
                   pickVars, chatVars>>

NextFetch ==
    \/ \E f \in FetchFunctions : FetchCall(f)
    \/ \E o \in Outcomes : FetchAttempt(o)
    \/ \E data \in Bodies(fn) : FetchReturned(data)
    \/ FetchRaised
    \/ FetchDone

SpecFetch == Init /\ [][NextFetch]_vars

(***************************************************************************)
(* Air quality: analyze_air_pollution applied to bounded readings.         *)
(***************************************************************************)
\* Concentrations are counted in thousandths of a microgram per cubic metre.
Micrograms(n) == n * 1000

\* The table of lines 243-252, read with dict.get: None for 'no', 'nh3' and
\* for a key outside the table.
thresholds_all(key) ==
    IF key = "co" THEN Num(Micrograms(9400))
    ELSE IF key = "no" THEN Num(Micrograms(100))
    ELSE IF key = "no2" THEN Num(Micrograms(150))
    ELSE IF key = "o3" THEN Num(Micrograms(140))
    ELSE IF key = "so2" THEN Num(Micrograms(250))
    ELSE IF key = "pm2_5" THEN Num(Micrograms(50))
    ELSE IF key = "pm10" THEN Num(Micrograms(100))
    ELSE IF key = "nh3" THEN Num(Micrograms(100))
    ELSE NoneNum
thresholds(key) ==
    IF key = "co" THEN Num(Micrograms(9400))
    ELSE IF key = "no2" THEN Num(Micrograms(150))
    ELSE IF key = "o3" THEN Num(Micrograms(140))
    ELSE IF key = "so2" THEN Num(Micrograms(250))
    ELSE IF key = "pm2_5" THEN Num(Micrograms(50))
    ELSE IF key = "pm10" THEN Num(Micrograms(100))
    ELSE NoneNum

\* aqi_levels.get(aqi, unknown) of lines 255-261 and 277; the statuses are
\* the Russian words in Latin letters.
aqi_levels_saturating(aqi) ==
    IF aqi <= 1 THEN "Khorosho"
    ELSE IF aqi = 2 THEN "Udovletvoritelno"
    ELSE IF aqi = 3 THEN "Umerenno"
    ELSE IF aqi = 4 THEN "Plokho"
    ELSE "Ochen plokho"
aqi_levels(aqi) ==
    IF aqi = 1 THEN "Khorosho"
    ELSE IF aqi = 2 THEN "Udovletvoritelno"
    ELSE IF aqi = 3 THEN "Umerenno"
    ELSE IF aqi = 4 THEN "Plokho"
    ELSE IF aqi = 5 THEN "Ochen plokho"
    ELSE "Neizvestno"

\* str.lower on the keys the readings use.
key_lower(key) == IF key = "PM10" THEN "pm10" ELSE key

Entry(key, value) == [key |-> key, value |-> value]
\* A value that is itself a dictionary.
NestedDict == [t |-> "dict", v |-> 0]

\* The test 'not components' of line 230.
Falsy_no_components(components) ==
    IF components.nested THEN components.items = <<>>
    ELSE components.main # "absent" \/ components.items = <<>>
Falsy(components) ==
    /\ components.main = "absent"
    /\ ~components.nested
    /\ components.items = <<>>

\* comps of lines 235-239.
CompsOf(components) ==
    IF components.main # "absent"
    THEN IF components.nested THEN components.items ELSE <<>>
    ELSE IF components.nested
         THEN <<Entry("components", NestedDict)>>
         ELSE components.items

\* components['main'].get('aqi') of line 236, or None.
ProvidedAqi(components) ==
    IF components.main = "aqi" THEN Num(components.aqi) ELSE NoneNum

\* The conditions of lines 268-272 and 289-293 for one item of comps.
Exceeds(entry) ==
    /\ entry.value.t = "num"
    /\ thresholds(key_lower(entry.key)).t = "num"
    /\ thresholds(key_lower(entry.key)).v # 0
    /\ entry.value.v > thresholds(key_lower(entry.key)).v

\* The level one item of comps asks for (lines 272-276).
level_of_poor(entry) ==
    IF Exceeds(entry) THEN 4 ELSE 1
level_of_graded(entry) ==
    IF Exceeds(entry)
    THEN IF 2 * entry.value.v > 3 * thresholds(key_lower(entry.key)).v
         THEN 5
         ELSE 4
    ELSE IF entry.value.t = "num" /\ entry.value.v > 0 THEN 2 ELSE 1
level_of(entry) ==
    IF Exceeds(entry)
    THEN IF 2 * entry.value.v > 3 * thresholds(key_lower(entry.key)).v
         THEN 5
         ELSE 4
    ELSE 1

max(a, b) == IF a >= b THEN a ELSE b

\* The loop of lines 266-276.
RECURSIVE max_level(_, _)
max_level(comps, level) ==
    IF comps = <<>> THEN level
    ELSE max_level(Tail(comps), max(level, level_of(Head(comps))))

\* round(number, 2) on a count of thousandths: to the nearest hundredth, a
\* tie going to the even one.
round_none(number, ndigits) == number
round(number, ndigits) ==
    LET step == 10 ^ (3 - ndigits)
        q == number \div step
        r == number % step
    IN  IF 2 * r < step THEN q * step
        ELSE IF 2 * r > step THEN (q + 1) * step
        ELSE IF q % 2 = 0 THEN q * step
        ELSE (q + 1) * step

\* The loop of lines 286-301.
RECURSIVE exceeded(_)
exceeded(comps) ==
    IF comps = <<>> THEN <<>>
    ELSE (IF Exceeds(Head(comps))
          THEN <<[component |-> Head(comps).key,
                  value |-> Head(comps).value.v,
                  threshold |-> thresholds(key_lower(Head(comps).key)).v,
                  excess |-> round(Head(comps).value.v
                                   - thresholds(key_lower(Head(comps).key)).v, 2)]>>
          ELSE <<>>) \o exceeded(Tail(comps))

\* The codes of the table of lines 243-252, and the table itself.
PollutantCodes == {"co", "no", "no2", "o3", "so2", "pm2_5", "pm10", "nh3"}
ThresholdTable == [k \in PollutantCodes |-> thresholds(k)]

\* The keys lines 305-307 add to the result.
extended_keys_always(ext) == {"components", "thresholds"}
extended_keys(ext) == IF ext THEN {"components", "thresholds"} ELSE {}

analyze_air_pollution(components, ext) ==
    IF Falsy(components)
    THEN Analysis({"status", "aqi"}, "Net dannykh", NoneNum, "", <<>>, <<>>,
                  EmptyDict)
    ELSE LET comps == CompsOf(components)
             aqi == IF ProvidedAqi(components) = NoneNum
                    THEN max_level(comps, 1)
                    ELSE ProvidedAqi(components).v
         IN  Analysis({"status", "aqi", "level_name"}
                          \cup (IF aqi >= 4 THEN {"exceeded_parameters"} ELSE {})
                          \cup extended_keys(ext),
                      aqi_levels(aqi), Num(aqi), aqi_levels(aqi),
                      IF aqi >= 4 THEN exceeded(comps) ELSE <<>>,
                      IF "components" \in extended_keys(ext)
                      THEN comps ELSE <<>>,
                      IF "thresholds" \in extended_keys(ext)
                      THEN ThresholdTable ELSE EmptyDict)

\* The readings the analysis is applied to.
\* A mapping holds at most MaxComps pollutants.
ProviderAqis == 0..6

\* Concentrations around the threshold t and around one and a half of it.
Around(t) ==
    {NoneNum, Num(0), Num(t), Num(t + 4), Num(t + 1006), Num(t + Micrograms(30)),
     Num((3 * t) \div 2), Num((3 * t) \div 2 + 1)}
Concentrations(key) ==
    IF thresholds(key_lower(key)) = NoneNum
    THEN {NoneNum, Num(0), Num(Micrograms(100000))}
    ELSE Around(thresholds(key_lower(key)).v)
FewConcentrations(key) ==
    IF thresholds(key_lower(key)) = NoneNum
    THEN {NoneNum, Num(Micrograms(100000))}
    ELSE {Num(0), Num(thresholds(key_lower(key)).v + 1006),
          Num((3 * thresholds(key_lower(key)).v) \div 2 + 1)}

\* Mappings of one pollutant, over every code, and of several pollutants,
\* over a few codes; a mapping names each pollutant once.
OneEntry ==
    UNION {{<<Entry(k, c)>> : c \in Concentrations(k)} :
              k \in PollutantCodes \cup {"PM10"}}
FewEntries ==
    UNION {{Entry(k, c) : c \in FewConcentrations(k)} :
              k \in {"pm2_5", "no", "PM10", "co"}}
SeveralEntries ==
    UNION {{m \in [1..n -> FewEntries] :
               \A i, j \in 1..n :
                   i # j => key_lower(m[i].key) # key_lower(m[j].key)} :
              n \in 2..MaxComps}

Shapes(mappings, aqis) ==
    {Reading("absent", 0, FALSE, m) : m \in mappings}
        \cup {Reading("absent", 0, TRUE, m) : m \in mappings}
        \cup {Reading("noaqi", 0, TRUE, m) : m \in mappings}
        \cup {Reading("aqi", a, TRUE, m) : a \in aqis, m \in mappings}
Readings ==
    Shapes({<<>>} \cup OneEntry, ProviderAqis)
        \cup Shapes(SeveralEntries, {3, 4})
        \cup {Reading("noaqi", 0, FALSE, <<>>)}
        \cup {Reading("aqi", a, FALSE, <<>>) : a \in ProviderAqis}

InitAir ==
    /\ RetryInit
    /\ GatewayInit
    /\ FetchInit
    /\ ViewInit
    /\ PickInit
    /\ ChatInit
    /\ StoreInit
    /\ DayInit
    /\ reading \in Readings
    /\ extended \in BOOLEAN
    /\ analysis = NoAnalysis

Analyze ==
    /\ analysis = NoAnalysis
    /\ analysis' = analyze_air_pollution(reading, extended)
    /\ UNCHANGED <<reading, extended>>
    /\ UNCHANGED <<retryVars, gatewayVars, fetchVars, dayVars, storeVars, viewVars,
                   pickVars, chatVars>>

NextAir == Analyze

SpecAir == InitAir /\ [][NextAir]_vars

(***************************************************************************)
(* Forecast: _group_forecast_by_days and _calculate_daily_average applied  *)
(* to bounded lists of forecast points.                                    *)
(***************************************************************************)
\* A forecast point: its 'dt_txt', main['temp'] and
\* weather[0]['description'], each None when the key is missing.
Point(dt_txt, temp, description) ==
    [dt_txt |-> dt_txt, temp |-> temp, description |-> description]

\* dt_txt.split()[0]: the first run of characters that are not whitespace.
RECURSIVE until_space(_)
until_space(s) ==
    IF s = <<>> \/ Head(s) \in Whitespace THEN <<>>
    ELSE <<Head(s)>> \o until_space(Tail(s))
split_first(s) == until_space(lstrip(s))

\* grouped[date].append(item): the dictionary keeps its keys in the order
\* of their first insertion.
append_replacing(g, date, item) ==
    IF \E i \in 1..Len(g) : g[i].date = date
    THEN [i \in 1..Len(g) |->
             IF g[i].date = date THEN [g[i] EXCEPT !.items = <<item>>] ELSE g[i]]
    ELSE Append(g, [date |-> date, items |-> <<item>>])
append(g, date, item) ==
    IF \E i \in 1..Len(g) : g[i].date = date
    THEN [i \in 1..Len(g) |->
             IF g[i].date = date
             THEN [g[i] EXCEPT !.items = Append(@, item)]
             ELSE g[i]]
    ELSE Append(g, [date |-> date, items |-> <<item>>])

\* The loop of lines 317-322, with item.get('dt_txt', '').
RECURSIVE group_loop(_, _)
group_loop(list, g) ==
    IF list = <<>> THEN g
    ELSE group_loop(Tail(list),
                    IF Head(list).dt_txt.t = "str" /\ Head(list).dt_txt.v # <<>>
                    THEN append(g, split_first(Head(list).dt_txt.v), Head(list))
                    ELSE g)

_group_forecast_by_days(list) == group_loop(list, <<>>)

\* The lists temps and descriptions of lines 338-350.
RECURSIVE present(_, _)
present(day_forecasts, key) ==
    IF day_forecasts = <<>> THEN <<>>
    ELSE (IF Head(day_forecasts)[key].t = "none" THEN <<>>
          ELSE <<Head(day_forecasts)[key].v>>)
             \o present(Tail(day_forecasts), key)

RECURSIVE sum(_)
sum(values) == IF values = <<>> THEN 0 ELSE Head(values) + sum(Tail(values))

\* A quotient of two integers, and None.
Frac(num, den) == [t |-> "num", num |-> num, den |-> den]
NoneFrac == [t |-> "none", num |-> 0, den |-> 1]

\* avg of lines 352-353.
avg(values) ==
    IF values = <<>> THEN NoneFrac ELSE Frac(sum(values), Len(values))

RECURSIVE min_of(_)
min_of(values) ==
    IF Len(values) = 1 THEN Head(values)
    ELSE IF Head(values) <= min_of(Tail(values)) THEN Head(values)
         ELSE min_of(Tail(values))
RECURSIVE max_of(_)
max_of(values) ==
    IF Len(values) = 1 THEN Head(values)
    ELSE max(Head(values), max_of(Tail(values)))

count(values, x) == Cardinality({i \in 1..Len(values) : values[i] = x})
Elements(values) == {values[i] : i \in 1..Len(values)}

\* max(set(descriptions), key=descriptions.count) of line 361: the first
\* most frequent description in the iteration order of the set, which
\* depends on the hashes of the strings: any of the most frequent ones.
Modes(descriptions) ==
    {d \in Elements(descriptions) :
        \A x \in Elements(descriptions) :
            count(descriptions, d) >= count(descriptions, x)}

NotAvailable == <<"N", "/", "A">>
DescriptionChoices(day_forecasts) ==
    IF present(day_forecasts, "description") = <<>> THEN {NotAvailable}
    ELSE Modes(present(day_forecasts, "description"))

\* The dictionary _calculate_daily_average returns; humidity_avg,
\* pressure_avg and wind_speed_avg are computed like temp_avg, each from
\* its own list.
Summary(keys, temp_avg, temp_min, temp_max, description) ==
    [keys |-> keys, temp_avg |-> temp_avg, temp_min |-> temp_min,
     temp_max |-> temp_max, description |-> description]

_calculate_daily_average(day_forecasts, description) ==
    IF day_forecasts = <<>>
    THEN Summary({}, NoneFrac, NoneNum, NoneNum, <<>>)
    ELSE Summary({"temp_avg", "temp_min", "temp_max", "description"},
                 avg(present(day_forecasts, "temp")),
                 IF present(day_forecasts, "temp") = <<>> THEN NoneNum
                 ELSE Num(min_of(present(day_forecasts, "temp"))),
                 IF present(day_forecasts, "temp") = <<>> THEN NoneNum
                 ELSE Num(max_of(present(day_forecasts, "temp"))),
                 description)

\* The lists the two functions are applied to: up to MaxPoints points.
DtTexts ==
    {NoneStr, Str(<<>>), Str(<<"a", " ", "A">>), Str(<<"a", " ", "b">>),
     Str(<<"b", " ", "A">>), Str(<<"a">>)}
GroupPoints == {Point(d, Num(t), NoneStr) : d \in DtTexts, t \in {10, 20}}
DayPoints ==
    {Point(Str(<<"a", " ", "A">>), t, d) :
        t \in {NoneNum, Num(10), Num(20)},
        d \in {NoneStr, Str(<<"a">>), Str(<<"b">>)}}
Lists(points) == UNION {[1..n -> points] : n \in 0..MaxPoints}

InitDay ==
    /\ RetryInit /\ GatewayInit /\ FetchInit /\ AirInit /\ StoreInit
    /\ ViewInit
    /\ PickInit
    /\ ChatInit
    /\ forecast_list \in Lists(GroupPoints) \cup Lists(DayPoints)
    /\ grouped = NotGrouped
    /\ daily = NotAveraged

Group ==
    /\ grouped = NotGrouped
    /\ grouped' = _group_forecast_by_days(forecast_list)
    /\ UNCHANGED <<forecast_list, daily>>
    /\ UNCHANGED <<retryVars, gatewayVars, fetchVars, airVars, storeVars, viewVars,
                   pickVars, chatVars>>

Average(description) ==
    /\ daily = NotAveraged
    /\ description \in DescriptionChoices(forecast_list)
    /\ daily' = _calculate_daily_average(forecast_list, description)
    /\ UNCHANGED <<forecast_list, grouped>>
    /\ UNCHANGED <<retryVars, gatewayVars, fetchVars, airVars, storeVars, viewVars,
                   pickVars, chatVars>>

NextDay ==
    \/ Group
    \/ \E d \in {NotAvailable, <<"a">>, <<"b">>} : Average(d)

SpecDay == InitDay /\ [][NextDay]_vars

(***************************************************************************)
(* The CLI forecast view: _show_forecast_interactive from the forecast on. *)
(***************************************************************************)
\* The order of str: by code point, a proper prefix first.
ord(c) == IF c = " " THEN 32 ELSE IF c = "A" THEN 65 ELSE IF c = "a" THEN 97
          ELSE 98

RECURSIVE less(_, _)
less(s, t) ==
    IF t = <<>> THEN FALSE
    ELSE IF s = <<>> THEN TRUE
    ELSE IF ord(Head(s)) # ord(Head(t)) THEN ord(Head(s)) < ord(Head(t))
    ELSE less(Tail(s), Tail(t))

\* sorted(keys): insertion into the sorted rest.
RECURSIVE insert(_, _)
insert(x, seq) ==
    IF seq = <<>> THEN <<x>>
    ELSE IF less(Head(seq), x) THEN <<Head(seq)>> \o insert(x, Tail(seq))
    ELSE <<x>> \o seq

RECURSIVE sorted(_)
sorted(seq) == IF seq = <<>> THEN <<>> ELSE insert(Head(seq), sorted(Tail(seq)))

\* grouped.keys().
keys(g) == [i \in 1..Len(g) |-> g[i].date]

\* dates[:5] of line 598.
listed(dates) == SubSeq(dates, 1, IF Len(dates) < 5 THEN Len(dates) ELSE 5)

\* str.isdigit and int on the text typed: the decimal digits, and the
\* superscript two, which isdigit accepts and int refuses.
Digits == <<"0", "1", "2", "3", "4", "5", "6", "7", "8", "9">>
DigitValue(c) == (CHOOSE i \in 1..Len(Digits) : Digits[i] = c) - 1
isdigit(s) ==
    /\ s # <<>>
    /\ \A i \in 1..Len(s) :
          s[i] = "sup2" \/ \E k \in 1..Len(Digits) : Digits[k] = s[i]

RECURSIVE int(_)
int(s) ==
    IF s = <<>> THEN 0
    ELSE 10 * int(SubSeq(s, 1, Len(s) - 1)) + DigitValue(Last(s))

\* Lines 607-616: what the view does with the text typed at the prompt.
Chosen(choice, outcome, date) ==
    [choice |-> choice, outcome |-> outcome, date |-> date]
pick(dates, typed) ==
    LET choice == strip(typed)
    IN  IF choice = <<>> \/ ~isdigit(choice)
        THEN Chosen(typed, "nothing", <<>>)
        ELSE IF \E i \in 1..Len(choice) : choice[i] = "sup2"
             THEN Chosen(typed, "raised ValueError", <<>>)
             ELSE IF 1 <= int(choice) /\ int(choice) <= Len(dates)
                  THEN Chosen(typed, "detailed forecast", dates[int(choice)])
                  ELSE Chosen(typed, "invalid day number", <<>>)

\* The forecasts the view is exercised with: one or two points for each of
\* n calendar dates, the dates ascending or descending.
Day(i) == [k \in 1..i |-> "a"]
DayPoint(i, time) == Point(Str(Day(i) \o <<" ">> \o time), Num(10), NoneStr)
Forecasts ==
    UNION {{[i \in 1..n |-> DayPoint(i, <<"A">>)],
            [i \in 1..n |-> DayPoint(n + 1 - i, <<"A">>)],
            [i \in 1..(2 * n) |-> DayPoint((i + 1) \div 2,
                                            IF i % 2 = 1 THEN <<"A">>
                                            ELSE <<"b">>)]} :
              n \in 0..MaxDays}

\* What may be typed at the prompt of line 607.
Typed ==
    {<<>>, <<" ">>, <<"a">>, <<"sup2">>, <<"1", "0">>, <<" ", "1">>}
        \cup {<<Digits[n + 1]>> : n \in 0..(MaxDays + 1)}

InitPick ==
    /\ RetryInit /\ GatewayInit /\ FetchInit /\ AirInit /\ StoreInit
    /\ ViewInit
    /\ PickInit
    /\ ChatInit
    /\ forecast_list \in Forecasts
    /\ grouped = NotGrouped
    /\ daily = NotAveraged

\* Lines 581-605: the view groups the forecast, sorts the dates and lists
\* the first five, or returns when there is nothing to list.
ForecastShown ==
    /\ summary = NotShown
    /\ detail = NoChoice
    /\ IF forecast_list = <<>>
       THEN /\ detail' = Chosen(<<>>, "no forecast", <<>>)
            /\ UNCHANGED <<grouped, summary>>
       ELSE /\ grouped' = _group_forecast_by_days(forecast_list)
            /\ IF grouped' = <<>>
               THEN /\ detail' = Chosen(<<>>, "no data", <<>>)
                    /\ UNCHANGED summary
               ELSE /\ summary' = listed(sorted(keys(grouped')))
                    /\ UNCHANGED detail
    /\ UNCHANGED <<forecast_list, daily>>
    /\ UNCHANGED <<retryVars, gatewayVars, fetchVars, airVars, storeVars,
                   viewVars, chatVars>>

\* Lines 607-616: the user has typed at the prompt.
DayChosen(typed) ==
    /\ summary # NotShown
    /\ detail = NoChoice
    /\ detail' = pick(sorted(keys(grouped)), typed)
    /\ UNCHANGED summary
    /\ UNCHANGED <<retryVars, gatewayVars, fetchVars, airVars, dayVars, storeVars,
                   viewVars, chatVars>>

NextPick ==
    \/ ForecastShown
    \/ \E typed \in Typed : DayChosen(typed)

SpecPick == InitPick /\ [][NextPick]_vars

(***************************************************************************)
(* The user store of the bot: the background sweep (_notification_loop)    *)
(* and a handler's _update_user_data, each reading and writing the whole   *)
(* document. A write puts the whole document or, on OSError, nothing.      *)
(***************************************************************************)
StoreWrites == {"ok", "failed"}

\* How the read of _load_data ends, and what _load_data returns (bot.py
\* lines 42-55): the document of the file, or the document without users
\* when the file cannot be opened or parsed.
StoreReads == {"ok", "failed"}
_load_data(file, r) ==
    IF r = "ok" THEN file ELSE [u \in Users |-> UserDoc(FALSE, FALSE)]

\* The store functions the handlers call, and what each does to the record
\* of its user between the load and the save (bot.py lines 68, 76-77).
StoreFunctions == {"_update_user_data", "_get_user_data"}
user_data(f, record) ==
    IF f = "_update_user_data" THEN [record EXCEPT !.last_city = "x"]
    ELSE record

\* What _save_data(data) leaves in the file (bot.py lines 58-63).
saved_document_merging(file, data) ==
    [u \in Users |-> [data[u] EXCEPT !.last_city = file[u].last_city]]
saved_document(file, data) == data

InitSweep ==
    /\ RetryInit /\ GatewayInit /\ FetchInit /\ AirInit /\ DayInit
    /\ ViewInit
    /\ PickInit
    /\ ChatInit
    /\ dataFile \in [Users -> {UserDoc(TRUE, TRUE), UserDoc(TRUE, FALSE),
                                UserDoc(FALSE, FALSE)}]
    /\ sweepPc = "sleeping"
    /\ sweepPos = 0
    /\ sweepData = [u \in Users |-> UserDoc(FALSE, FALSE)]
    /\ processed = {}
    /\ sweepWrote = "no"
    /\ hPc = "idle"
    /\ hUser = 0
    /\ hData = [u \in Users |-> UserDoc(FALSE, FALSE)]
    /\ raced = {}
    /\ alerts = [u \in Users |-> 0]

\* The sleep is over: the sweep loads the document (bot.py lines 475-479).
SweepLoad(r) ==
    /\ sweepPc = "sleeping"
    /\ sweepPc' = "users"
    /\ sweepData' = _load_data(dataFile, r)
    /\ sweepPos' = 1
    /\ processed' = {}
    /\ sweepWrote' = "no"
    /\ raced' = {}
    /\ UNCHANGED <<dataFile, hPc, hUser, hData, alerts>>
    /\ UNCHANGED <<retryVars, gatewayVars, fetchVars, airVars, dayVars, viewVars,
                   pickVars, chatVars>>

\* One iteration of the for loop (bot.py lines 480-527). fetch is how the two
\* fetches of lines 494-498 end: one of them raised (caught at line 497),
\* one of them came back empty, or both are there; rain is the result of
\* _check_tomorrow_rain and desc the current description; s1 and s2 are
\* how bot.send_message ends at lines 506 and 519, which no try statement
\* encloses.
SweepUser(fetch, rain, desc, s1, s2) ==
    /\ sweepPc = "users"
    /\ sweepPos \in Users
    /\ LET doc == sweepData[sweepPos]
           skip == ~doc.enabled \/ ~doc.located \/ fetch # "ok"
           alert == rain /\ doc.last_rain_alert # "today"
           doc1 == IF alert /\ s1 = "sent"
                   THEN [doc EXCEPT !.last_rain_alert = "today"]
                   ELSE doc
           change == desc # "none" /\ desc # doc.last_condition
           doc2 == IF change /\ s2 = "sent"
                   THEN [doc1 EXCEPT !.last_condition = desc]
                   ELSE doc1
       IN  /\ alerts' = IF ~skip /\ alert /\ s1 = "sent"
                         THEN [alerts EXCEPT ![sweepPos] =
                                  IF @ < MaxAlerts THEN @ + 1 ELSE @]
                         ELSE alerts
           /\ IF skip
              THEN /\ sweepPos' = sweepPos + 1
                   /\ processed' = processed \cup {sweepPos}
                   /\ UNCHANGED <<sweepPc, sweepData>>
              ELSE IF alert /\ s1 = "raised"
                   THEN /\ sweepPc' = "dead"
                        /\ UNCHANGED <<sweepPos, processed, sweepData>>
                   ELSE IF change /\ s2 = "raised"
                        THEN /\ sweepPc' = "dead"
                             /\ sweepData' = [sweepData EXCEPT ![sweepPos] = doc1]
                             /\ UNCHANGED <<sweepPos, processed>>
                        ELSE /\ sweepData' = [sweepData EXCEPT ![sweepPos] = doc2]
                             /\ sweepPos' = sweepPos + 1
                             /\ processed' = processed \cup {sweepPos}
                             /\ UNCHANGED sweepPc
    /\ UNCHANGED <<dataFile, sweepWrote, hPc, hUser, hData, raced>>
    /\ UNCHANGED <<retryVars, gatewayVars, fetchVars, airVars, dayVars, viewVars,
                   pickVars, chatVars>>

\* The for loop is over: the sweep saves its document and sleeps
\* (bot.py lines 528-529, 475).
SweepSave(w) ==
    /\ sweepPc = "users"
    /\ sweepPos \notin Users
    /\ dataFile' = IF w = "ok" THEN saved_document(dataFile, sweepData)
                   ELSE dataFile
    /\ sweepWrote' = w
    /\ sweepPc' = "sleeping"
    /\ sweepPos' = 0
    /\ UNCHANGED <<sweepData, processed, hPc, hUser, hData, raced, alerts>>
    /\ UNCHANGED <<retryVars, gatewayVars, fetchVars, airVars, dayVars, viewVars,
                   pickVars, chatVars>>

\* _update_user_data(u, last_city=...) or _get_user_data(u) in a handler:
\* the load of bot.py lines 75 and 67.
HandlerLoad(f, u, r) ==
    /\ hPc = "idle"
    /\ hPc' = f
    /\ hUser' = u
    /\ hData' = _load_data(dataFile, r)
    /\ UNCHANGED <<dataFile, sweepPc, sweepPos, sweepData, processed,
                   sweepWrote, raced, alerts>>
    /\ UNCHANGED <<retryVars, gatewayVars, fetchVars, airVars, dayVars, viewVars,
                   pickVars, chatVars>>

\* The update and the save of bot.py lines 76-79 and 68-70.
HandlerSave(w) ==
    /\ hPc \in StoreFunctions
    /\ dataFile' = IF w = "ok"
                   THEN saved_document(dataFile,
                            [hData EXCEPT ![hUser] = user_data(hPc, @)])
                   ELSE dataFile
    /\ raced' = IF /\ w = "ok"
                   /\ hPc = "_update_user_data"
                   /\ sweepPc = "users"
                   /\ sweepData[hUser].last_city = "none"
                THEN raced \cup {hUser}
                ELSE raced
    /\ hPc' = "idle"
    /\ hUser' = 0
    /\ hData' = [u \in Users |-> UserDoc(FALSE, FALSE)]
    /\ UNCHANGED <<sweepPc, sweepPos, sweepData, processed, sweepWrote,
                   alerts>>
    /\ UNCHANGED <<retryVars, gatewayVars, fetchVars, airVars, dayVars, viewVars,
                   pickVars, chatVars>>

NextSweep ==
    \/ SweepLoad("ok")
    \/ \E fetch \in {"raised", "empty", "ok"} : \E rain \in BOOLEAN :
         \E desc \in {"none", "c1"} : \E s1, s2 \in {"sent", "raised"} :
             SweepUser(fetch, rain, desc, s1, s2)
    \/ \E w \in StoreWrites : SweepSave(w)
    \/ \E u \in Users : HandlerLoad("_update_user_data", u, "ok")
    \/ \E w \in StoreWrites : HandlerSave(w)

SpecSweep == InitSweep /\ [][NextSweep]_vars

\* The store functions on their own, one call at a time, with reads of the
\* store file that fail.
NextStore ==
    \/ \E f \in StoreFunctions : \E u \in Users : \E r \in StoreReads :
         HandlerLoad(f, u, r)
    \/ \E w \in StoreWrites : HandlerSave(w)

SpecStore == InitSweep /\ [][NextStore]_vars

(***************************************************************************)
(* The functions that resolve a city and then fetch by its coordinates:    *)
(* _show_forecast_interactive, _show_air_pollution_interactive, the bot's  *)
(* handler of an air-quality city (handle_text in STATE_WAIT_AIR_CITY) and *)
(* get_current_weather given a city (its cache is part of Spec).           *)
(***************************************************************************)
Views ==
    {"_show_forecast_interactive", "_show_air_pollution_interactive",
     "handle_text_air_city", "get_current_weather"}

\* The fetch that follows the geocoding in each of them.
SecondFetch(v) ==
    IF v = "_show_forecast_interactive" THEN "get_forecast_5d3h"
    ELSE IF v = "get_current_weather" THEN "get_weather_by_coordinates"
    ELSE "get_air_pollution"

\* What each does when get_coordinates returned None (lines 573-575,
\* 646-648, 150-151; bot.py lines 663-665): the three views report that
\* the coordinates of the city could not be obtained, get_current_weather
\* returns None.
on_unresolved_raising(v) == "raised"
on_unresolved(v) ==
    IF v = "get_current_weather" THEN "returned None"
    ELSE "could not get the coordinates of the city"

\* What each does with the result of its second fetch.
on_fetched(v, value) ==
    IF v = "get_current_weather"
    THEN IF value.t = "None" THEN "returned None" ELSE "returned the weather"
    ELSE IF value.v = <<>> THEN "could not get the data" ELSE "data"

ViewOpen(v) ==
    /\ view = "none"
    /\ fn = "none"
    /\ rq = "idle"
    /\ view' = v
    /\ fn' = "get_coordinates"
    /\ issued' = {"get_coordinates"}
    /\ RequestBegin
    /\ UNCHANGED <<json, result, shown>>
    /\ UNCHANGED <<gatewayVars, airVars, dayVars, storeVars,
                   pickVars, chatVars>>

\* get_coordinates has ended.
ViewResolve ==
    /\ view # "none"
    /\ shown = "none"
    /\ fn = "get_coordinates"
    /\ result.kind # "pending"
    /\ IF result.kind = "raise"
       THEN /\ shown' = "raised"
            /\ UNCHANGED <<fn, json, result, issued, retryVars>>
       ELSE IF result.t = "None"
            THEN /\ shown' = on_unresolved(view)
                 /\ UNCHANGED <<fn, json, result, issued, retryVars>>
            ELSE /\ fn' = SecondFetch(view)
                 /\ issued' = issued \cup {SecondFetch(view)}
                 /\ json' = NoBody
                 /\ result' = NoResult
                 /\ RequestBegin
                 /\ UNCHANGED shown
    /\ UNCHANGED view
    /\ UNCHANGED <<gatewayVars, airVars, dayVars, storeVars,
                   pickVars, chatVars>>

\* The second fetch has ended.
ViewShow ==
    /\ view # "none"
    /\ shown = "none"
    /\ fn = SecondFetch(view)
    /\ result.kind # "pending"
    /\ shown' = IF result.kind = "raise" THEN "raised"
                ELSE on_fetched(view, result)
    /\ UNCHANGED <<view, issued, fetchVars, retryVars>>
    /\ UNCHANGED <<gatewayVars, airVars, dayVars, storeVars,
                   pickVars, chatVars>>

ViewClose ==
    /\ shown # "none"
    /\ view' = "none"
    /\ shown' = "none"
    /\ issued' = {}
    /\ fn' = "none"
    /\ json' = NoBody
    /\ result' = NoResult
    /\ RequestEnd
    /\ UNCHANGED <<gatewayVars, airVars, dayVars, storeVars,
                   pickVars, chatVars>>

NextView ==
    \/ \E v \in Views : ViewOpen(v)
    \/ \E o \in GatewayOutcomes \cup {RequestException} : FetchAttempt(o)
    \/ \E data \in Bodies(fn) : FetchReturned(data)
    \/ FetchRaised
    \/ ViewResolve
    \/ ViewShow
    \/ ViewClose

SpecView == Init /\ [][NextView]_vars

(***************************************************************************)
(* The conversation of the bot with one user: handle_text and              *)
(* handle_location.                                                        *)
(***************************************************************************)
\* _clear_state (bot.py lines 268-269) pops the user's entry;
\* user_states[user_id] = {"state": s} replaces it.
_clear_state_keeps(entry) == entry
_clear_state(entry) == NoEntry
set_state(entry, s) == StateEntry(s, 0)

\* The states in which handle_text consumes the text as the awaited input
\* and then asks the provider (bot.py lines 591, 602, 658, 671).
TextStates ==
    {"wait_city_weather", "wait_compare", "wait_air_city", "wait_extended"}

\* The menu buttons and the state each one sets (bot.py lines 682-732).
Buttons == {"weather_city", "forecast", "weather_geo", "air", "compare",
            "extended"}
state_of(button) ==
    IF button = "weather_city" THEN "wait_city_weather"
    ELSE IF button = "forecast" THEN "wait_forecast_location"
    ELSE IF button = "weather_geo" THEN "wait_geo_weather"
    ELSE IF button = "air" THEN "wait_air_mode"
    ELSE IF button = "compare" THEN "wait_compare"
    ELSE "wait_extended"

\* The cancel text (bot.py lines 584-587).
ChatCancel ==
    /\ botPc = "idle"
    /\ user_states' = _clear_state(user_states)
    /\ handled' = "cancel"
    /\ ended' = "returned"
    /\ UNCHANGED <<has_location, botPc, forecasts, deleted>>
    /\ UNCHANGED <<retryVars, gatewayVars, fetchVars, airVars, dayVars, storeVars,
                   viewVars, pickVars>>

\* A text in one of the states that await a city or two cities, up to the
\* first provider request (bot.py lines 591-595, 602-612, 658-662,
\* 671-675); valid says whether the text of wait_compare names two cities.
ChatText(valid) ==
    /\ botPc = "idle"
    /\ user_states.state \in TextStates
    /\ user_states' = _clear_state(user_states)
    /\ handled' = user_states.state
    /\ IF user_states.state = "wait_compare" /\ ~valid
       THEN botPc' = "idle" /\ ended' = "returned"
       ELSE botPc' = "request" /\ ended' = "pending"
    /\ UNCHANGED <<has_location, forecasts, deleted>>
    /\ UNCHANGED <<retryVars, gatewayVars, fetchVars, airVars, dayVars, storeVars,
                   viewVars, pickVars>>

\* A text in wait_air_mode (bot.py lines 642-656).
ChatAirMode(choice) ==
    /\ botPc = "idle"
    /\ user_states.state = "wait_air_mode"
    /\ user_states' = IF choice = "1" THEN set_state(user_states, "wait_air_city")
                      ELSE IF choice = "2"
                           THEN set_state(user_states, "wait_air_geo")
                           ELSE user_states
    /\ handled' = "wait_air_mode"
    /\ ended' = "returned"
    /\ UNCHANGED <<has_location, botPc, forecasts, deleted>>
    /\ UNCHANGED <<retryVars, gatewayVars, fetchVars, airVars, dayVars, storeVars,
                   viewVars, pickVars>>

\* A menu button, or any other text, in a state that does not consume the
\* text (bot.py lines 682-740): the forecast button of a user with a stored
\* location goes straight to _send_forecast_inline.
ChatMenu(button) ==
    /\ botPc = "idle"
    /\ user_states.state \notin TextStates \cup {"wait_air_mode"}
    /\ handled' = "menu"
    /\ IF button = "forecast" /\ has_location
       THEN /\ botPc' = "forecast"
            /\ ended' = "pending"
            /\ UNCHANGED user_states
       ELSE /\ user_states' = IF button \in Buttons
                              THEN set_state(user_states, state_of(button))
                              ELSE user_states
            /\ ended' = "returned"
            /\ UNCHANGED botPc
    /\ UNCHANGED <<has_location, forecasts, deleted>>
    /\ UNCHANGED <<retryVars, gatewayVars, fetchVars, airVars, dayVars, storeVars,
                   viewVars, pickVars>>

\* A location message, up to the first provider request (bot.py lines
\* 540-554, 558-561, 563-564, 572); w says whether _set_user_location's
\* save reached the store file.
ChatLocation(w) ==
    /\ botPc = "idle"
    /\ has_location' = (has_location \/ w = "ok")
    /\ user_states' = _clear_state(user_states)
    /\ handled' = "location"
    /\ ended' = "pending"
    /\ botPc' = IF user_states.state = "wait_forecast_location"
                THEN "forecast" ELSE "request"
    /\ UNCHANGED <<forecasts, deleted>>
    /\ UNCHANGED <<retryVars, gatewayVars, fetchVars, airVars, dayVars, storeVars,
                   viewVars, pickVars>>

\* The provider requests of the handler end, by a return or by
\* TransientRequestError, and the handler replies or is left by the
\* exception.
ChatRequestEnds(how) ==
    /\ botPc = "request"
    /\ botPc' = "idle"
    /\ ended' = how
    /\ UNCHANGED <<user_states, has_location, handled, forecasts, deleted>>
    /\ UNCHANGED <<retryVars, gatewayVars, fetchVars, airVars, dayVars, storeVars,
                   viewVars, pickVars>>

\* _send_forecast_inline after get_forecast_5d3h (bot.py lines 273-317):
\* with a forecast it tries to delete the message whose id the entry holds,
\* sends the new message and stores its id.
ChatForecastEnds(how) ==
    /\ botPc = "forecast"
    /\ botPc' = "idle"
    /\ ended' = IF how = "raised" THEN "raised" ELSE "returned"
    /\ IF how = "forecast"
       THEN /\ forecasts < MaxForecasts
            /\ deleted' = user_states.last_inline_msg_id
            /\ forecasts' = forecasts + 1
            /\ user_states' =
                  [user_states EXCEPT !.last_inline_msg_id = forecasts + 1]
       ELSE UNCHANGED <<user_states, forecasts, deleted>>
    /\ UNCHANGED <<has_location, handled>>
    /\ UNCHANGED <<retryVars, gatewayVars, fetchVars, airVars, dayVars, storeVars,
                   viewVars, pickVars>>

NextChat ==
    \/ ChatCancel
    \/ \E valid \in BOOLEAN : ChatText(valid)
    \/ \E choice \in {"1", "2", "x"} : ChatAirMode(choice)
    \/ \E button \in Buttons \cup {"other"} : ChatMenu(button)
    \/ \E w \in {"ok", "failed"} : ChatLocation(w)
    \/ \E how \in {"returned", "raised"} : ChatRequestEnds(how)
    \/ \E how \in {"forecast", "empty", "raised"} : ChatForecastEnds(how)

SpecChat == Init /\ [][NextChat]_vars

(***************************************************************************)
(* Properties of the retry client (checked under SpecRetry).               *)
(***************************************************************************)
\* The failures the retry policy names: HTTP 429, any status 500..599, or a
\* network-level exception.
RetryClass(o) ==
    o.exc \/ o.status_code = 429 \/ o.status_code \in 500..599

AllRetryClass(rs) == \A i \in 1..Len(rs) : RetryClass(rs[i])

Finished == rq \in {"returned", "raised"}

\* C1: a call makes at most 4 attempts and sleeps only between consecutive
\* attempts, the sleeps being a prefix of 1, 2, 4 in that order; 429, 429,
\* 429, 200 returns the 200 response after exactly the sleeps 1, 2, 4; four
\* 500 responses raise TransientRequestError after the same three sleeps.
C1_BackoffSchedule ==
    /\ Len(responses) <= 4
    /\ Len(sleeps) <= 3
    /\ sleeps = SubSeq(<<1, 2, 4>>, 1, Len(sleeps))
    /\ Len(sleeps) = IF Finished THEN Len(responses) - 1 ELSE Len(responses)
    /\ responses = <<Response(429), Response(429), Response(429), Response(200)>>
          => rq = "returned" /\ sleeps = <<1, 2, 4>>
    /\ responses = <<Response(500), Response(500), Response(500), Response(500)>>
          => rq = "raised" /\ sleeps = <<1, 2, 4>>

C1_Witness ==
    /\ rq = "returned"
    /\ responses = <<Response(429), Response(429), Response(429), Response(200)>>
    /\ sleeps = <<1, 2, 4>>

\* C2: an attempt is followed by a sleep and a further attempt exactly when
\* it ended with 429, a status 500..599 or a network exception (and the 4
\* attempts of C1 are not used up); a response with any other status is
\* returned on the attempt that received it, with no sleep after it.
C2_RetryTriggers ==
    /\ \A i \in 1..(Len(responses) - 1) : RetryClass(responses[i])
    /\ rq = "running" => AllRetryClass(responses)
    /\ (responses # <<>> /\ ~RetryClass(Last(responses)))
          => rq = "returned" /\ Len(sleeps) = Len(responses) - 1
    /\ (responses # <<>> /\ RetryClass(Last(responses)) /\ Len(responses) < 4)
          => rq = "running" /\ Len(sleeps) = Len(responses)

C2_Witness ==
    /\ rq = "returned"
    /\ responses = <<Response(500), RequestException, Response(404)>>
    /\ sleeps = <<1, 2>>

\* C3: when all 4 attempts end in a retryable failure the call raises
\* TransientRequestError; a returned response never has status 429 or
\* 500..599, and the call raises only after 4 retryable failures.
C3_NeverReturnsRetryable ==
    /\ rq = "returned"
          => /\ ~Last(responses).exc
             /\ Last(responses).status_code # 429
             /\ Last(responses).status_code \notin 500..599
    /\ (Len(responses) = 4 /\ AllRetryClass(responses)) => rq = "raised"
    /\ rq = "raised" => Len(responses) = 4 /\ AllRetryClass(responses)

C3_Witness ==
    /\ rq = "raised"
    /\ responses =
          <<Response(429), Response(500), RequestException, Response(599)>>

(***************************************************************************)
(* Properties of the gateway and of the fallback (checked under Spec).     *)
(***************************************************************************)
\* The request obtained a snapshot: it returned a JSON object.
ObtainedSnapshot == pc = "done" /\ ret.kind = "value" /\ ret.data.t = "dict"

\* The request was made for a city (a non-empty city argument was given).
ForCity == req.city.t = "str" /\ req.city.v # <<>>

\* C4: after a get_current_weather call that obtains a snapshot and whose
\* file write succeeds, the cache holds exactly that call's entry: its city
\* (no city for a coordinate request), the resolved coordinates and its
\* snapshot, whatever was stored before.
C4_SingleSlotOverwrite ==
    ObtainedSnapshot =>
        /\ wrote # "no"
        /\ wrote # "failed" =>
              /\ cacheFile.kind = "entry"
              /\ cacheFile.city = (IF ForCity THEN req.city ELSE NoneStr)
              /\ cacheFile.lat = coords.lat
              /\ cacheFile.lon = coords.lon
              /\ cacheFile.lat.t = "num" /\ cacheFile.lon.t = "num"
              /\ cacheFile.data = ret.data
              /\ cacheFile.fetched_at.fmt = "aware"

\* The sweep's coordinate request replaced an entry stored under another key.
C4_Witness ==
    /\ ObtainedSnapshot
    /\ caller = "sweep"
    /\ wrote = "other_key"
    /\ cacheFile.city = NoneStr
    /\ cacheFile.data = Dict("w2")

\* C5: in a current-weather request the cache is read only after the live
\* fetch of that request has raised TransientRequestError: never while the
\* live fetch is pending and never when it returned.
C5_CacheOnlyAfterTransient ==
    /\ cacheRead => live = "raised"
    /\ pc = "except" => live = "raised"

C5_Witness ==
    /\ pc = "done"
    /\ cacheRead
    /\ live = "raised"
    /\ ret.kind = "cached"

\* The answers among Answers by which the user accepts the offer.
AcceptingAnswers == {<<>>, <<"y">>, <<"Y">>, <<" ", "y">>}

\* The entry's age is within 3 hours at the instant clock.
AgeWithinThreeHours(entry, clock) ==
    /\ entry.fetched_at.fmt \in {"aware", "naive"}
    /\ 0 <= clock - entry.fetched_at.t
    /\ clock - entry.fetched_at.t <= 10800

\* C6: _fetch_weather_interactive returns cached data only if the live
\* fetch raised TransientRequestError, a cache entry exists, the entry is
\* fresh, the entry matches the request (the cache's matches operation) and
\* the user accepted the offer; after a transient failure it returns None in
\* every other case.
C6_FallbackConditions ==
    [][(pc = "except" /\ pc' = "done") =>
          LET all == /\ live = "raised"
                     /\ cacheFile.kind = "entry"
                     /\ AgeWithinThreeHours(cacheFile, now)
                     /\ _cache_matches_request(cacheFile, req.city, req.lat,
                                                req.lon)
                     /\ answer' \in AcceptingAnswers
          IN  /\ ret'.kind \in {"cached", "none"}
              /\ ret'.kind = "cached" => all /\ ret'.data = cacheFile.data
              /\ ~all => ret' = RetNone]_vars

C6_Witness ==
    /\ pc = "done"
    /\ caller = "cli"
    /\ live = "raised"
    /\ ret.kind = "cached"
    /\ answer = <<" ", "y">>

\* C7: _cache_matches_request is false whenever the request and the stored
\* entry are of different key kinds: a city request against an entry saved
\* by a coordinate request, or a coordinate request against an entry saved
\* by a city request.
C7_NoCrossMatching ==
    (/\ pc = "except"
     /\ cacheFile.kind = "entry"
     /\ (req.city.t = "str") # (cacheFile.city.t = "str"))
        => ~_cache_matches_request(cacheFile, req.city, req.lat, req.lon)

(***************************************************************************)
(* Properties of the cache predicates (checked under SpecCache).           *)
(***************************************************************************)
Age == now - cacheFile.fetched_at.t

\* C8: _is_fresh is true exactly when 0 <= now - fetched_at <= 10800
\* seconds: an age of 10800 s is fresh, 10801 s is not, a negative age is
\* not.
C8_FreshnessWindow ==
    (out.fn = "_is_fresh" /\ cacheFile.fetched_at.fmt \in {"aware", "naive"})
        => /\ out.val <=> (0 <= Age /\ Age <= 10800)
           /\ Age = 10800 => out.val
           /\ Age = 10801 => ~out.val
           /\ Age < 0 => ~out.val

C8_Witness ==
    /\ out.fn = "_is_fresh"
    /\ cacheFile.fetched_at = Timestamp("aware", 1)
    /\ now = 10801
    /\ out.val

\* x is s without its surrounding whitespace.
IsPadding(p) == \A i \in 1..Len(p) : p[i] \in Whitespace
Trimmed(s, x) ==
    \E i \in 0..Len(s) : \E j \in 0..(Len(s) - i) :
        /\ IsPadding(SubSeq(s, 1, i))
        /\ IsPadding(SubSeq(s, Len(s) - j + 1, Len(s)))
        /\ x = SubSeq(s, i + 1, Len(s) - j)
        /\ x # <<>> => x[1] \notin Whitespace /\ x[Len(x)] \notin Whitespace

SameLetter(c, d) == c = d \/ {c, d} = {"a", "A"}
EqualIgnoringCase(x, y) ==
    /\ Len(x) = Len(y)
    /\ \A i \in 1..Len(x) : SameLetter(x[i], y[i])

\* C9: for a city request against a city-keyed entry, _cache_matches_request
\* is true exactly when the two names are equal after trimming surrounding
\* whitespace and ignoring case.
C9_CityMatch ==
    (/\ out.fn = "_cache_matches_request"
     /\ req.city.t = "str"
     /\ cacheFile.city.t = "str")
        => (out.val <=>
              \E x \in Strings : \E y \in Strings :
                  /\ Trimmed(cacheFile.city.v, x)
                  /\ Trimmed(req.city.v, y)
                  /\ EqualIgnoringCase(x, y))

C9_Witness ==
    /\ out.fn = "_cache_matches_request"
    /\ cacheFile.city = Str(<<" ", "A">>)
    /\ req.city = Str(<<"a", " ">>)
    /\ out.val

\* The entry and the request with the stored and the requested pair swapped.
SwappedEntry == [cacheFile EXCEPT !.lat = req.lat, !.lon = req.lon]

\* C10: for a coordinate request against a coordinate-keyed entry,
\* _cache_matches_request is true exactly when the latitudes and the
\* longitudes each differ by at most the tolerance, and swapping the stored
\* and the requested pair gives the same answer.
C10_CoordMatch ==
    (/\ out.fn = "_cache_matches_request"
     /\ req.city.t = "none" /\ req.lat.t = "num" /\ req.lon.t = "num"
     /\ cacheFile.city.t = "none"
     /\ cacheFile.lat.t = "num" /\ cacheFile.lon.t = "num")
        => /\ out.val <=>
                 /\ cacheFile.lat.v - req.lat.v \in (0 - tol)..tol
                 /\ cacheFile.lon.v - req.lon.v \in (0 - tol)..tol
           /\ out.val = _cache_matches_request(SwappedEntry, req.city,
                                                cacheFile.lat, cacheFile.lon)

C10_Witness ==
    /\ out.fn = "_cache_matches_request"
    /\ req.city.t = "none" /\ cacheFile.city.t = "none"
    /\ cacheFile.lat = Num(0) /\ req.lat = Num(2)
    /\ cacheFile.lon = Num(3) /\ req.lon = Num(1)
    /\ out.val

\* C11: _load_cache never raises: for a missing file, an unreadable file
\* and a file with malformed content of any kind (not JSON, JSON that is no
\* object, undecodable bytes) it returns None.
C11_LoadNeverRaises ==
    out.fn = "_load_cache"
        => /\ ~out.raised
           /\ cacheFile.kind # "entry" => ~out.val

\* C12: a cache file write failure never blocks normal operation: when the
\* write inside _save_cache fails, _save_cache returns normally and
\* get_current_weather still returns the live snapshot it fetched.
C12_WriteFailureSwallowed ==
    (pc = "done" /\ wrote = "failed")
        => /\ live = "returned"
           /\ ret.kind = "value"
           /\ ret.data \in Snapshots

C12_Witness ==
    /\ pc = "done"
    /\ wrote = "failed"
    /\ cacheFile = CacheGarbage
    /\ ret = [kind |-> "value", data |-> Dict("w1")]

(***************************************************************************)
(* Properties of the fetch functions (checked under SpecFetch).            *)
(***************************************************************************)
\* The call of fn has ended, by a return or by an exception.
Ended(f) == fn = f /\ result.kind # "pending"

\* Every attempt failed in the retry class and the attempts are used up.
RetriesExhausted ==
    Len(responses) = Len(backoffs) + 1 /\ AllRetryClass(responses)

FinalStatus == Last(responses).status_code

\* C13: get_coordinates has exactly these outcomes: on status 200 with a
\* non-empty list it returns the latitude and longitude of the first entry;
\* on status 200 with an empty list it returns None; on any other
\* non-retryable status it returns None; it raises only when the retries
\* are exhausted, and what it raises is TransientRequestError.
C13_GetCoordinates ==
    Ended("get_coordinates") =>
        /\ result.kind = "raise" <=> RetriesExhausted
        /\ result.kind = "raise" => result.exc = "TransientRequestError"
        /\ result.kind = "return" =>
              /\ ~RetryClass(Last(responses))
              /\ (FinalStatus = 200 /\ json.list # <<>>)
                    => /\ result.t = "tuple"
                       /\ result.v = <<json.list[1].lat, json.list[1].lon>>
              /\ (FinalStatus = 200 /\ json.list = <<>>) => result.t = "None"
              /\ FinalStatus # 200 => result.t = "None"

\* A city with two places was geocoded to the first of them.
C13_Witness ==
    /\ Ended("get_coordinates")
    /\ FinalStatus = 200
    /\ json.list = <<Place(MaxCoord, 0), Place(0, 0)>>
    /\ result = Returned(PyTuple(<<MaxCoord, 0>>))

\* C14: get_forecast_5d3h returns the empty list on retry exhaustion and on
\* every status other than 200, and on status 200 the member 'list' of the
\* body, or the empty list when the body has no such member.
C14_ForecastNeverRaises ==
    Ended("get_forecast_5d3h") =>
        /\ result.kind = "return"
        /\ result.t = "list"
        /\ RetriesExhausted => result.v = <<>>
        /\ (~RetriesExhausted /\ FinalStatus # 200) => result.v = <<>>
        /\ (~RetriesExhausted /\ FinalStatus = 200)
              => result.v = (IF json.hasList THEN json.list ELSE <<>>)

\* C15: get_air_pollution returns the empty dictionary on retry exhaustion,
\* on every status other than 200 and on a body whose list is missing or
\* empty, and otherwise the first entry of the list.
C15_PollutionNeverRaises ==
    Ended("get_air_pollution") =>
        /\ result.kind = "return"
        /\ result.t = "dict"
        /\ RetriesExhausted => result.v = <<>>
        /\ (~RetriesExhausted /\ FinalStatus # 200) => result.v = <<>>
        /\ (~RetriesExhausted /\ FinalStatus = 200)
              => result.v = (IF json.hasList /\ json.list # <<>>
                             THEN <<json.list[1]>> ELSE <<>>)

(***************************************************************************)
(* Properties of the air quality analysis (checked under SpecAir).         *)
(***************************************************************************)
Analysed == analysis # NoAnalysis

\* The dictionary {status: no data, aqi: null} and nothing else.
IsNoData ==
    /\ analysis.keys = {"status", "aqi"}
    /\ analysis.status = "Net dannykh"
    /\ analysis.aqi = NoneNum

PM25_80 == <<Entry("pm2_5", Num(Micrograms(80)))>>

PM25_Record ==
    [component |-> "pm2_5", value |-> Micrograms(80),
     threshold |-> Micrograms(50), excess |-> Micrograms(30)]

Has(record) ==
    /\ "exceeded_parameters" \in analysis.keys
    /\ \E i \in 1..Len(analysis.exceeded_parameters) :
          analysis.exceeded_parameters[i] = record

CarriesNoComponents ==
    IF reading.nested THEN reading.items = <<>>
    ELSE reading.main # "absent" \/ reading.items = <<>>

IsEmptyReading == reading = Reading("absent", 0, FALSE, <<>>)

\* C17 as stated: when the reading carries no components (an empty reading,
\* or one whose components mapping is empty or absent) the analysis is
\* exactly {status: no data, aqi: null}, with no exceeded_parameters key.
C17_NoComponentsNoData ==
    (Analysed /\ CarriesNoComponents) => IsNoData

\* C17, amended: the analysis is exactly {status: no data, aqi: null}, with
\* no exceeded_parameters key, when and only when the reading is empty; a
\* non-empty reading whose components mapping is empty or absent is analysed
\* like any other: its AQI is the reading's AQI when it has one and 1
\* otherwise, and it carries an empty exceeded_parameters list when that AQI
\* is at least 4.
C17_EmptyReadingNoData ==
    Analysed =>
        /\ IsNoData <=> IsEmptyReading
        /\ (CarriesNoComponents /\ ~IsEmptyReading) =>
              /\ analysis.aqi = (IF reading.main = "aqi"
                                 THEN Num(reading.aqi) ELSE Num(1))
              /\ "level_name" \in analysis.keys
              /\ "exceeded_parameters" \in analysis.keys <=> analysis.aqi.v >= 4
              /\ analysis.exceeded_parameters = <<>>

C17_Witness == IsEmptyReading /\ Analysed /\ IsNoData

\* The thresholds the claims name, by pollutant; 0 for no threshold.
NamedThreshold(pollutant) ==
    IF pollutant = "co" THEN Micrograms(9400)
    ELSE IF pollutant = "no2" THEN Micrograms(150)
    ELSE IF pollutant = "o3" THEN Micrograms(140)
    ELSE IF pollutant = "so2" THEN Micrograms(250)
    ELSE IF pollutant = "pm2_5" THEN Micrograms(50)
    ELSE IF pollutant = "pm10" THEN Micrograms(100)
    ELSE 0

\* The items the analysis reads.
Items == CompsOf(reading)

Over(i) ==
    /\ Items[i].value.t = "num"
    /\ NamedThreshold(key_lower(Items[i].key)) > 0
    /\ Items[i].value.v > NamedThreshold(key_lower(Items[i].key))

FarOver(i) ==
    /\ Over(i)
    /\ 2 * Items[i].value.v > 3 * NamedThreshold(key_lower(Items[i].key))

DerivedLevel ==
    IF \E i \in 1..Len(Items) : FarOver(i) THEN 5
    ELSE IF \E i \in 1..Len(Items) : Over(i) THEN 4
    ELSE 1

OverItems == SelectSeq([i \in 1..Len(Items) |-> [i |-> i, e |-> Items[i]]],
                       LAMBDA x : Over(x.i))

ListPresentIffPoor ==
    "exceeded_parameters" \in analysis.keys
        <=> (analysis.aqi.t = "num" /\ analysis.aqi.v >= 4)

\* One record per item over its threshold, each with the item's key, value
\* and threshold.
OneRecordEach ==
    /\ Len(analysis.exceeded_parameters) = Len(OverItems)
    /\ \A i \in 1..Len(OverItems) :
          /\ analysis.exceeded_parameters[i].component = OverItems[i].e.key
          /\ analysis.exceeded_parameters[i].value = OverItems[i].e.value.v
          /\ analysis.exceeded_parameters[i].threshold
                = NamedThreshold(key_lower(OverItems[i].e.key))

\* C19 as stated: the analysis has an exceeded_parameters list if and only
\* if its AQI is at least 4, and the list then holds exactly one record per
\* pollutant over its threshold, with excess = value - threshold.
C19_ExactExcess ==
    Analysed =>
        /\ ListPresentIffPoor
        /\ "exceeded_parameters" \in analysis.keys =>
              /\ OneRecordEach
              /\ \A i \in 1..Len(analysis.exceeded_parameters) :
                    analysis.exceeded_parameters[i].excess
                      = analysis.exceeded_parameters[i].value
                          - analysis.exceeded_parameters[i].threshold

\* C19, amended: the analysis has an exceeded_parameters list if and only if
\* its AQI is at least 4, and the list then holds exactly one record per
\* pollutant over its threshold, with excess = value - threshold rounded to
\* two decimals (a whole number of hundredths, at most half a hundredth
\* away from the difference); pollutants at or below their threshold and no
\* and nh3 never appear.
C19_ExceededList ==
    Analysed =>
        /\ ListPresentIffPoor
        /\ "exceeded_parameters" \in analysis.keys =>
              /\ OneRecordEach
              /\ \A i \in 1..Len(analysis.exceeded_parameters) :
                    LET r == analysis.exceeded_parameters[i]
                    IN  /\ r.excess % 10 = 0
                        /\ 2 * abs(r.excess - (r.value - r.threshold)) <= 10
                        /\ r.value > r.threshold
                        /\ key_lower(r.component) \notin {"no", "nh3"}

\* A provider AQI of 4 with pm2_5 50.004: one record, its excess rounded
\* to 0.
C19_Witness ==
    /\ Analysed
    /\ reading = Reading("aqi", 4, TRUE,
                         <<Entry("pm2_5", Num(Micrograms(50) + 4))>>)
    /\ analysis.exceeded_parameters
         = <<[component |-> "pm2_5", value |-> Micrograms(50) + 4,
              threshold |-> Micrograms(50), excess |-> 0]>>

NamedStatus(aqi) ==
    IF aqi = 1 THEN "Khorosho"
    ELSE IF aqi = 2 THEN "Udovletvoritelno"
    ELSE IF aqi = 3 THEN "Umerenno"
    ELSE IF aqi = 4 THEN "Plokho"
    ELSE IF aqi = 5 THEN "Ochen plokho"
    ELSE "Neizvestno"

\* C20: AQI 1, 2, 3, 4, 5 map to five distinct statuses (good, fair,
\* moderate, poor, very poor), every other AQI (0 or 6, say) maps to the
\* unknown status and still yields a result, and status and level_name are
\* the same string.
C20_StatusMapping ==
    (Analysed /\ ~IsEmptyReading) =>
        /\ analysis.aqi.t = "num"
        /\ analysis.status = NamedStatus(analysis.aqi.v)
        /\ {"status", "level_name"} \subseteq analysis.keys
        /\ analysis.level_name = analysis.status
        /\ Cardinality({NamedStatus(a) : a \in 0..6}) = 6
        /\ analysis.aqi.v \notin 1..5 => analysis.status = "Neizvestno"

C20_Witness ==
    /\ Analysed
    /\ reading.main = "aqi"
    /\ reading.aqi = 6
    /\ analysis.status = "Neizvestno"
    /\ analysis.level_name = "Neizvestno"

\* What the analysis of the same reading is with the other value of
\* extended.
Counterpart == analyze_air_pollution(reading, ~extended)

\* The result without the keys 'components' and 'thresholds'.
Rest(a) ==
    [keys |-> a.keys \ {"components", "thresholds"}, status |-> a.status,
     aqi |-> a.aqi, level_name |-> a.level_name,
     exceeded_parameters |-> a.exceeded_parameters]

FullTable(table) ==
    /\ DOMAIN table = {"co", "no", "no2", "o3", "so2", "pm2_5", "pm10", "nh3"}
    /\ \A k \in DOMAIN table :
          table[k] = (IF NamedThreshold(k) = 0 THEN NoneNum
                      ELSE Num(NamedThreshold(k)))

Attached ==
    /\ {"components", "thresholds"} \subseteq analysis.keys
    /\ analysis.components = Items
    /\ FullTable(analysis.thresholds)

NotAttached == {"components", "thresholds"} \cap analysis.keys = {}

\* C21 as stated: the result contains the components mapping and the full
\* threshold table if and only if extended is true, and the rest of the
\* result is the same for extended true and false.
C21_ExtendedAlways ==
    Analysed =>
        /\ IF extended THEN Attached ELSE NotAttached
        /\ Rest(analysis) = Rest(Counterpart)

\* C21, amended: for a non-empty reading the result contains the components
\* mapping and the full threshold table (all eight pollutant codes, no and
\* nh3 with no threshold) if and only if extended is true; for an empty
\* reading it contains neither, whatever extended is; the rest of the
\* result is the same for extended true and false.
C21_ExtendedFrame ==
    Analysed =>
        /\ IF extended /\ ~IsEmptyReading THEN Attached ELSE NotAttached
        /\ Rest(analysis) = Rest(Counterpart)

C21_Witness ==
    /\ Analysed
    /\ extended
    /\ reading = Reading("aqi", 4, TRUE, PM25_80)
    /\ Attached
    /\ analysis.exceeded_parameters = <<PM25_Record>>

(***************************************************************************)
(* Properties of the forecast functions (checked under SpecDay).           *)
(***************************************************************************)
Grouped == grouped # NotGrouped

\* The point has a timestamp, and the date that timestamp starts with.
Dated(p) == p.dt_txt.t = "str" /\ p.dt_txt.v # <<>>
DateOf(p) == split_first(p.dt_txt.v)

RECURSIVE Held(_)
Held(buckets) ==
    IF buckets = <<>> THEN 0
    ELSE Len(Head(buckets).items) + Held(Tail(buckets))

FirstSeen(date) ==
    CHOOSE i \in 1..Len(forecast_list) :
        /\ Dated(forecast_list[i]) /\ DateOf(forecast_list[i]) = date
        /\ \A j \in 1..(i - 1) :
              ~(Dated(forecast_list[j]) /\ DateOf(forecast_list[j]) = date)

\* Each bucket holds exactly the points of its date, in input order, no
\* two buckets have the same date, and buckets are in first-seen order.
BucketsByDate ==
    /\ \A i, j \in 1..Len(grouped) :
          i # j => grouped[i].date # grouped[j].date
    /\ \A i \in 1..Len(grouped) :
          /\ grouped[i].items # <<>>
          /\ grouped[i].items
               = SelectSeq(forecast_list,
                           LAMBDA p : Dated(p) /\ DateOf(p) = grouped[i].date)
    /\ \A i, j \in 1..Len(grouped) :
          i < j => FirstSeen(grouped[i].date) < FirstSeen(grouped[j].date)

Averaged == daily # NotAveraged

Temps == present(forecast_list, "temp")
Descriptions == present(forecast_list, "description")

Occurrences(d) == Cardinality({i \in 1..Len(Descriptions) : Descriptions[i] = d})
FirstAt(d) ==
    CHOOSE i \in 1..Len(Descriptions) :
        Descriptions[i] = d /\ \A j \in 1..(i - 1) : Descriptions[j] # d

\* The mean, the minimum and the maximum of the temperatures present.
TemperatureSummary ==
    Temps # <<>> =>
        /\ daily.temp_avg.t = "num"
        /\ daily.temp_avg.num = sum(Temps)
        /\ daily.temp_avg.den = Len(Temps)
        /\ \E i \in 1..Len(Temps) : daily.temp_min = Num(Temps[i])
        /\ \A i \in 1..Len(Temps) : daily.temp_min.v <= Temps[i]
        /\ \E i \in 1..Len(Temps) : daily.temp_max = Num(Temps[i])
        /\ \A i \in 1..Len(Temps) : daily.temp_max.v >= Temps[i]
        /\ Temps = <<10, 20>> =>
              /\ daily.temp_avg.num = 15 * daily.temp_avg.den
              /\ daily.temp_min = Num(10)
              /\ daily.temp_max = Num(20)

\* The description is a most frequent one, and among equally frequent ones
\* the one met first in the bucket.
FirstMostFrequent ==
    Descriptions # <<>> =>
        \A i \in 1..Len(Descriptions) :
            \/ Occurrences(Descriptions[i]) < Occurrences(daily.description)
            \/ /\ Occurrences(Descriptions[i]) = Occurrences(daily.description)
               /\ FirstAt(daily.description) <= FirstAt(Descriptions[i])

\* C23: on a non-empty bucket _calculate_daily_average returns the mean,
\* minimum and maximum of the temperatures present (for 10 and 20: 15, 10,
\* 20) and, as description, the most frequent description, a tie being
\* broken in favour of the one met first in the bucket.
C23_DailySummary ==
    (Averaged /\ forecast_list # <<>>) =>
        /\ TemperatureSummary
        /\ FirstMostFrequent

\* The temperature part of C23 alone.
C23_Temperatures ==
    (Averaged /\ forecast_list # <<>>) => TemperatureSummary

(***************************************************************************)
(* Properties of the user store and the sweep (checked under SpecSweep).   *)
(***************************************************************************)
\* C24: in a sweep, a failure while processing one user (fetching the
\* forecast or the weather, or sending the notification) is caught and
\* skips only that user: the loop never ends by an exception, and when the
\* sweep has saved, the for loop has been through every user.
C24_FailureSkipsOneUser ==
    /\ sweepPc # "dead"
    /\ sweepWrote # "no" => processed = Users

\* C25: the sweep's save replaces the whole document by the one the sweep
\* loaded and worked on, so an update a handler wrote between the sweep's
\* load and its save is in the file before that save and gone after it.
C25_LastWriterWins ==
    [][(sweepPc = "users" /\ sweepPc' = "sleeping" /\ sweepWrote' = "ok")
          => /\ dataFile' = sweepData
             /\ \A u \in raced :
                   /\ dataFile[u].last_city = "x"
                   /\ dataFile'[u].last_city = "none"]_vars

\* The sweep has saved, and the update of a handler written during the
\* sweep is not in the file.
C25_Witness ==
    /\ sweepPc = "sleeping"
    /\ sweepWrote = "ok"
    /\ raced # {}
    /\ \A u \in raced : dataFile[u].last_city = "none"
    /\ dataFile = sweepData

(***************************************************************************)
(* Properties of the functions that resolve a city (checked under          *)
(* SpecView).                                                              *)
(***************************************************************************)
\* The geocoder answered the city with an empty list.
EmptyGeocoderAnswer ==
    /\ view # "none"
    /\ fn = "get_coordinates"
    /\ result.kind # "pending"
    /\ ~RetryClass(Last(responses))
    /\ FinalStatus = 200
    /\ json.list = <<>>

\* C26: when the geocoder answers a city with an empty list, nothing
\* raises: get_current_weather returns None, the CLI forecast and
\* air-quality views and the bot's air-by-city handler report that the city
\* could not be resolved, and no weather, forecast or air-pollution request
\* is issued for that city.
C26_UnresolvedCity ==
    EmptyGeocoderAnswer =>
        /\ result.kind = "return"
        /\ issued = {"get_coordinates"}
        /\ shown \in {"none",
                       IF view = "get_current_weather" THEN "returned None"
                       ELSE "could not get the coordinates of the city"}

C26_Witness ==
    /\ EmptyGeocoderAnswer
    /\ view = "handle_text_air_city"
    /\ shown = "could not get the coordinates of the city"
    /\ issued = {"get_coordinates"}

(***************************************************************************)
(* Properties of a current-weather request of the bot and of                *)
(* get_current_weather (checked under Spec).                                *)
(***************************************************************************)
\* The step that ends get_current_weather with its last request returned.
EndsReturned ==
    /\ pc \in {"geocode", "weather"}
    /\ rq = "returned"
    /\ pc' = "done"

\* The provider call ends in a fatal error: a final status other than 200,
\* or a 200 answer of the geocoder with an empty list.
FatalError ==
    /\ EndsReturned
    /\ \/ FinalStatus # 200
       \/ pc = "geocode"

\* C27: in the bot, a current-weather request (by city or by location) whose
\* provider call ends in a fatal error, a non-retryable status other than 200
\* or an empty geocoder result, produces exactly one reply, the apology.
C27_FatalApology ==
    [][(caller = "bot" /\ FatalError) => replies' = <<"apology">>]_vars

C27_Witness ==
    /\ pc = "done"
    /\ caller = "bot"
    /\ branch(req) # "neither"
    /\ live = "returned"
    /\ ret = RetNone
    /\ replies = <<"apology">>

\* C28: in the bot, a current-weather request that ends in a transient
\* failure is still answered: the handler replies to the user and the
\* TransientRequestError does not escape the handler.
C28_TransientAnswered ==
    (pc = "done" /\ caller = "bot" /\ live = "raised")
        => /\ ret.kind # "raise"
           /\ Len(replies) >= 1

\* The arguments of the call of get_current_weather that begins or is in
\* progress.
ArgsNext == GatewayArgs(caller', req')

\* C29: get_current_weather given a city geocodes first and fetches the
\* weather only after the geocoder returned coordinates, and by those
\* coordinates; when geocoding yields nothing no weather request is issued
\* and None is returned; a city takes precedence over coordinates; with
\* neither a city nor both coordinates no request is issued at all.
C29_GeocodeThenFetch ==
    [][/\ (pc = "idle" /\ pc' # "idle" /\ Truthy(ArgsNext.city))
             => pc' = "geocode" /\ rq' = "running"
       /\ (pc = "idle" /\ pc' # "idle" /\ ~Truthy(ArgsNext.city))
             => IF ArgsNext.lat.t # "none" /\ ArgsNext.lon.t # "none"
                THEN /\ pc' = "weather"
                     /\ rq' = "running"
                     /\ coords' = [lat |-> ArgsNext.lat, lon |-> ArgsNext.lon]
                ELSE /\ pc' = "done"
                     /\ rq' = "idle"
                     /\ ret' = RetNone
       /\ (pc = "geocode" /\ pc' # "geocode")
             => /\ rq \in {"returned", "raised"}
                /\ IF rq = "returned" /\ FinalStatus = 200 /\ pc' = "weather"
                   THEN /\ rq' = "running"
                        /\ json'.list # <<>>
                        /\ coords' = [lat |-> Num(json'.list[1].lat),
                                      lon |-> Num(json'.list[1].lon)]
                   ELSE /\ pc' \in {"done", "except"}
                        /\ rq' = "idle"
                        /\ rq = "returned" => ret' = RetNone
       /\ (pc # "weather" /\ pc' = "weather") => pc \in {"idle", "geocode"}
      ]_vars

\* A city was given together with other coordinates than the geocoder's, and
\* the weather request is made for the geocoder's.
C29_Witness ==
    /\ pc = "weather"
    /\ rq = "running"
    /\ Truthy(req.city)
    /\ req.lat = Num(0)
    /\ json.list # <<>>
    /\ coords = [lat |-> Num(MaxCoord), lon |-> Num(0)]

(***************************************************************************)
(* Termination of the retry client (checked under SpecRetryLive).          *)
(***************************************************************************)
\* C30: every call of _request_with_retries terminates, returning a
\* response or raising TransientRequestError, whatever the outcomes of its
\* attempts are.
C30_Terminates == (rq = "running") ~> (rq \in {"returned", "raised"})

C30_Witness ==
    /\ rq = "raised"
    /\ responses = <<RequestException, Response(429), Response(599),
                     RequestException>>

(***************************************************************************)
(* The cache as a frame of a current-weather request (checked under Spec). *)
(***************************************************************************)
\* The step in which get_current_weather obtains a snapshot: the weather
\* request returned 200 with a JSON object.
ObtainsSnapshot ==
    /\ pc = "weather"
    /\ rq = "returned"
    /\ FinalStatus = 200
    /\ ret'.kind = "value"
    /\ ret'.data.t = "dict"

\* C31: a current-weather request that does not obtain a snapshot leaves
\* the cache unchanged: the cache file changes only in the step that
\* obtains a snapshot, so a return of None, a TransientRequestError and the
\* whole fallback path leave the stored entry and its fetched_at as they
\* were; and a cache file that exists is never deleted.
C31_CacheFrame ==
    [][/\ cacheFile' # cacheFile => ObtainsSnapshot
       /\ cacheFile'.kind = "absent" => cacheFile.kind = "absent"]_vars

\* The offer of the cached entry was declined and the entry is still there.
C31_Witness ==
    /\ pc = "done"
    /\ caller = "cli"
    /\ live = "raised"
    /\ cacheRead
    /\ answer = <<"n">>
    /\ ret = RetNone
    /\ cacheFile.kind = "entry"

(***************************************************************************)
(* The levels the analysis derives (checked under SpecAir).                *)
(***************************************************************************)
\* C32: an AQI that analyze_air_pollution derives from the concentrations,
\* the reading carrying no AQI of the provider, is 1, 4 or 5 and never 2 or
\* 3, so the derived status is never fair or moderate.
C32_DerivedLevels ==
    (Analysed /\ ~IsEmptyReading /\ reading.main # "aqi") =>
        /\ analysis.aqi \in {Num(1), Num(4), Num(5)}
        /\ analysis.status \in {"Khorosho", "Plokho", "Ochen plokho"}
        /\ analysis.status \notin {NamedStatus(2), NamedStatus(3)}

\* Two concentrations under their thresholds next to one far over its own.
C32_Witness ==
    /\ Analysed
    /\ reading.main # "aqi"
    /\ Len(Items) >= 2
    /\ \E i \in 1..Len(Items) : Items[i].value.t = "num" /\ ~Over(i)
    /\ \E i \in 1..Len(Items) : FarOver(i)
    /\ analysis.aqi = Num(5)
    /\ analysis.status = "Ochen plokho"

(***************************************************************************)
(* The rain alert over several sweeps (checked under SpecSweep).           *)
(***************************************************************************)
\* C33: a subscribed user receives at most one rain alert per calendar date,
\* over any number of sweeps and any interleaving of the sweep with the
\* handlers that write the user store, sweeps whose save fails included.
C33_OneAlertPerDate == \A u \in Users : alerts[u] <= 1

(***************************************************************************)
(* The CLI views under provider failures (checked under SpecView).         *)
(***************************************************************************)
\* The views main calls for the menu choices 3, 4 and 5; main has no try
\* statement around the calls (lines 711-744), so what leaves a view leaves
\* main.
MenuViews == {"_show_forecast_interactive", "_show_air_pollution_interactive"}

\* C34: no provider failure ends the CLI session: whatever the provider
\* answers, the view called for a menu choice returns, and main goes back
\* to the menu prompt.
C34_SessionSurvives == view \in MenuViews => shown # "raised"

(***************************************************************************)
(* The store functions as a frame (checked under SpecStore).               *)
(***************************************************************************)
\* C35: _update_user_data(u, ...) and _get_user_data(u) change at most the
\* record of user u in the persisted store: the record of every other user
\* is the same after the call's save as before it, also when the read of
\* the store file failed.
C35_OtherUsersKept ==
    [][(hPc \in StoreFunctions /\ hPc' = "idle")
          => \A v \in Users \ {hUser} : dataFile'[v] = dataFile[v]]_vars

(***************************************************************************)
(* The day picked in the CLI forecast view (checked under SpecPick).       *)
(***************************************************************************)
\* C36: in the CLI forecast view a day number is accepted for the detailed
\* view only if that day is one of the at most five days of the summary
\* just shown; any other number is rejected as an invalid day.
C36_OnlyListedDays ==
    /\ summary # NotShown => Len(summary) <= 5
    /\ detail.outcome = "detailed forecast"
          => \E i \in 1..Len(summary) : summary[i] = detail.date

(***************************************************************************)
(* Properties of the bot's conversation (checked under SpecChat).          *)
(***************************************************************************)
\* The inputs that are consumed at once: a text in a state that awaits a
\* city, a location message, the cancel text.
OneShot == TextStates \cup {"location", "cancel"}

\* C37: when the bot consumes an input in a one-shot waiting state, a
\* location message in any state, or the cancel text, the user's pending
\* state is cleared before any provider request is issued, so the user has
\* no pending state while the request runs and after it returned or raised.
C37_StateCleared == handled \in OneShot => user_states.state = "none"

\* The request for the city typed in wait_city_weather raised.
C37_Witness ==
    /\ handled = "wait_city_weather"
    /\ botPc = "idle"
    /\ ended = "raised"
    /\ user_states.state = "none"

\* C38: whenever _send_forecast_inline sends a forecast to a user who was
\* already sent one, it first tries to delete the previous forecast message.
C38_PreviousDeleted ==
    [][(forecasts' = forecasts + 1 /\ forecasts >= 1)
          => deleted' = forecasts]_vars

====
